---- MODULE Spec2Model ----
(***************************************************************************)
(* A model of the HackerNews / GitHub-stars collection pipeline:           *)
(*   - HNAPIClient.fetch_posts_in_timeframe   (the Search-API Fetcher)     *)
(*   - GitHubStarTracker.fetch_stars_page / fetch_all_stars                *)
(*                                            (the Star History Fetcher)   *)
(*   - HackerNews._enrich_with_github_stars   (the Enrichment Pipeline)    *)
(* The remote services are the environment: every response is chosen       *)
(* nondeterministically from small sets.                                   *)
(***************************************************************************)
EXTENDS Integers, Sequences, FiniteSets, TLC

(***************************************************************************)
(* Bounds of the model                                                     *)
(***************************************************************************)
\* the largest max_posts argument tried
MaxMaxPosts == 3
\* the largest number of hits the search server puts on one page
MaxHits == 3
\* the largest number of search requests of one run
MaxRequests == 3
\* the largest number of full pages (of STARS_PER_PAGE items) of a repository
MaxFullPages == 1
\* the largest number of items on the last, partial page of a repository
MaxTail == 1
\* the largest max_pages argument tried
MaxMaxPages == 2
\* the largest number of stargazer requests of one fetch_all_stars run
MaxStarRequests == 4
\* the largest number of rate-limited responses of one fetch_all_stars run
MaxRateLimited == 2
\* the largest number of posts handed to the enrichment pipeline
MaxPosts == 2
\* the largest number of tokens of the path of a URL text
MaxUrlPath == 5
\* the largest number of words of an age text
MaxAgeWords == 3
\* the largest number of posts written to a file
MaxCsvPosts == 2
\* the largest number of rows of a front page
MaxRows == 3
\* the largest page count given to scrape_pages
MaxNumPages == 3
\* the largest number of hits in the result sequence of the search server
MaxIndex == 4

(***************************************************************************)
(* Python values                                                           *)
(***************************************************************************)
\* An Optional value: None is the empty tuple, a present value v is <<v>>
None == <<>>

Some(v) == <<v>>

\* the value of a present Optional
Val(o) == o[1]

\* Python truthiness of an Optional[int]: None and 0 are falsy
Truthy(o) == o # None /\ Val(o) # 0

Min(a, b) == IF a <= b THEN a ELSE b

Max(a, b) == IF a >= b THEN a ELSE b

VARIABLES
  \* ---- HNAPIClient.fetch_posts_in_timeframe
  max_posts,      \* the argument: None or an integer
  page,           \* the zero-based page cursor
  all_posts,      \* the accumulated HNPost list
  sPc,            \* "loop" | "done" (returned all_posts) | "raised"
  sRequests,      \* history: the params of every request issued
  sOutcomes,      \* history: the kind of response to every request
  sConvertible,   \* history: the served hits that have a title and convert
                  \*          without error, in the order served, each with
                  \*          the page index it was served for
  sSleeps,        \* history: number of time.sleep(self.delay) calls
  sHits,          \* local hits: the raw hits of the last response
  \* ---- GitHubStarTracker.fetch_all_stars / fetch_stars_page
  repoData,       \* the server's raw stargazer items of the repository:
                  \*   the kinds of its full pages, and its last partial page
  st_repo,        \* the arguments owner and repo
  max_pages,      \* the argument: None or an integer
  star_page,      \* fetch_all_stars' 1-based page cursor
  all_stars,      \* the accumulated GitHubStar list
  stPc,           \* "idle" | "loop" | "wait" | "retry" | "done" | "raised"
  fp_page,        \* fetch_stars_page's page argument in the retrying call
  wait_time,      \* the rate-limit sleep in progress (0 when not sleeping)
  clock,          \* time.time(), in seconds since the run began
  stRequests,     \* history: every request issued, with the kind of response
  stWaits,        \* history: every completed rate-limit sleep
  \* ---- HackerNews._enrich_with_github_stars
  posts,          \* the argument: the list of HNPost, mutated in place
  ei,             \* the 1-based position of the loop in github_posts
  ePc,            \* "start" | "loop" | "copy" | "fetch" | "count" | "set" |
                  \* "cache" | "returned" | "raised"
  eStep,          \* in "copy" and "set": the next of the five assignments
  repo_full_name, \* local: the repository of the current post
  stars,          \* local: the list fetch_all_stars returned
  counts,         \* locals total_stars, stars_before, stars_after
  processed_repos, \* the memo: repository full name -> star_data
  eNow,           \* datetime.now(), as a count of loop iterations begun
  fetchCalls,     \* history: the repositories of the completed calls of
                  \*          fetch_all_stars, in call order
  eInterrupt,     \* history: where a KeyboardInterrupt arrived ("" if none)
  eFetched,       \* history: the calls of fetch_all_stars, each with the post
                  \*          it was made for and what it returned or raised
  \* ---- GitHubStarTracker.extract_repo_info
  rUrl,           \* the argument url: a text, as a sequence of tokens
  rResult,        \* the value returned: None or the pair (owner, repo)
  rPc,            \* "idle" | "call" | "returned" | "raised"
  \* ---- HNWebScraper.parse_age_to_datetime
  age_text,       \* the argument: a text, as a sequence of characters and chunks
  age_now,        \* datetime.now(), in minutes since 0001-01-01 00:00
  age_result,     \* the value returned: None or a naive datetime
  agePc,          \* "idle" | "call" | "returned" | "raised"
  \* ---- HackerNews.save_to_csv, HNGitHubAnalyzer.load_posts_from_csv
  csvPosts,       \* the argument posts of save_to_csv
  csvFile,        \* the file: None (no file) or its rows, the header first
  csvLoaded,      \* the list load_posts_from_csv returned
  csvPc,          \* "idle" | "start" | "saved" | "loaded" | "raised"
  \* ---- HNWebScraper.parse_page, HackerNewsScraper.parse_page
  html,           \* the argument: the rows (tr elements) of the page, in order
  pn,             \* the argument page_number
  webResult,      \* None, or the list HNWebScraper.parse_page returned
  scrResult,      \* None, or the list HackerNewsScraper.parse_page returned
  \* ---- scrape_pages
  scClass,        \* the class whose scrape_pages runs
  num_pages,      \* the argument num_pages
  page_num,       \* the loop variable of scrape_pages
  scAllPosts,     \* all_posts of scrape_pages
  scRequests,     \* the requests fetch_page sent, in order, each with its outcome
  scSleeps,       \* the number of time.sleep(self.delay) calls of fetch_page
  scPc,           \* "idle", "loop", "done" (returned) or "raised"
  \* ---- the search index
  sIndex          \* the fixed result sequence of a search server that pages by offset

searchVars ==
  <<max_posts, page, all_posts, sPc, sRequests, sOutcomes, sConvertible, sSleeps,
    sHits>>

starVars ==
  <<repoData, st_repo, max_pages, star_page, all_stars, stPc, fp_page,
    wait_time, clock, stRequests, stWaits>>

enrichVars ==
  <<posts, ei, ePc, eStep, repo_full_name, stars, counts, processed_repos,
    eNow, fetchCalls, eInterrupt, eFetched>>

resolverVars == <<rUrl, rResult, rPc>>

ageVars == <<age_text, age_now, age_result, agePc>>

csvVars == <<csvPosts, csvFile, csvLoaded, csvPc>>

parseVars == <<html, pn, webResult, scrResult>>

scrapeVars == <<scClass, num_pages, page_num, scAllPosts, scRequests, scSleeps, scPc>>

indexVars == <<sIndex>>

vars ==
  <<searchVars, starVars, enrichVars, resolverVars, ageVars, csvVars,
    parseVars, scrapeVars, indexVars>>

\* what the steps of one component leave alone: the other components
exceptSearch ==
  <<starVars, enrichVars, resolverVars, ageVars, csvVars, parseVars,
    scrapeVars, indexVars>>

exceptStars ==
  <<searchVars, enrichVars, resolverVars, ageVars, csvVars, parseVars,
    scrapeVars, indexVars>>

exceptEnrich ==
  <<searchVars, starVars, resolverVars, ageVars, csvVars, parseVars,
    scrapeVars, indexVars>>

exceptResolver ==
  <<searchVars, starVars, enrichVars, ageVars, csvVars, parseVars,
    scrapeVars, indexVars>>

exceptAge ==
  <<searchVars, starVars, enrichVars, resolverVars, csvVars, parseVars,
    scrapeVars, indexVars>>

exceptCsv ==
  <<searchVars, starVars, enrichVars, resolverVars, ageVars, parseVars,
    scrapeVars, indexVars>>

exceptParse ==
  <<searchVars, starVars, enrichVars, resolverVars, ageVars, csvVars,
    scrapeVars, indexVars>>

exceptScrape ==
  <<searchVars, starVars, enrichVars, resolverVars, ageVars, csvVars,
    parseVars, indexVars>>

exceptIndex ==
  <<searchVars, starVars, enrichVars, resolverVars, ageVars, csvVars,
    parseVars, scrapeVars>>

(***************************************************************************)
(* The components at rest                                                  *)
(***************************************************************************)
\* the search fetcher is not running
SearchIdle ==
  /\ max_posts = None
  /\ page = 0
  /\ all_posts = <<>>
  /\ sPc = "idle"
  /\ sRequests = <<>>
  /\ sOutcomes = <<>>
  /\ sConvertible = <<>>
  /\ sSleeps = 0
  /\ sHits = <<>>

\* the star fetcher is not running
StarsIdle ==
  /\ repoData = [full |-> <<>>, tail |-> <<>>]
  /\ st_repo = [owner |-> "", repo |-> ""]
  /\ max_pages = None
  /\ star_page = 1
  /\ all_stars = <<>>
  /\ stPc = "idle"
  /\ fp_page = 1
  /\ wait_time = 0
  /\ clock = 0
  /\ stRequests = <<>>
  /\ stWaits = <<>>

\* an absent repository name
NoRepo == [owner |-> <<>>, repo |-> <<>>]

\* the locals before the counting
NoCounts == [total_stars |-> 0, stars_before |-> 0, stars_after |-> 0]

\* the enrichment pipeline is not running
EnrichIdle ==
  /\ posts = <<>>
  /\ ei = 1
  /\ ePc = "idle"
  /\ eStep = 1
  /\ repo_full_name = NoRepo
  /\ stars = <<>>
  /\ counts = NoCounts
  /\ processed_repos = <<>>
  /\ eNow = 0
  /\ fetchCalls = <<>>
  /\ eInterrupt = ""
  /\ eFetched = <<>>

\* the resolver is not running
ResolverIdle ==
  /\ rUrl = <<>>
  /\ rResult = None
  /\ rPc = "idle"

\* the relative-age parser is not running
AgeIdle ==
  /\ age_text = <<>>
  /\ age_now = 0
  /\ age_result = None
  /\ agePc = "idle"

\* the exporter is not running
CsvIdle ==
  /\ csvPosts = <<>>
  /\ csvFile = None
  /\ csvLoaded = <<>>
  /\ csvPc = "idle"

\* the front-page parsers are not running
ParseIdle ==
  /\ html = <<>>
  /\ pn = 0
  /\ webResult = None
  /\ scrResult = None

\* the front-page fetcher is not running
ScrapeIdle ==
  /\ scClass = "HNWebScraper"
  /\ num_pages = 0
  /\ page_num = 0
  /\ scAllPosts = <<>>
  /\ scRequests = <<>>
  /\ scSleeps = 0
  /\ scPc = "idle"

\* no paging search server is set up
IndexIdle ==
  /\ sIndex = <<>>

\* every component but the named one is at rest
IdleExcept(c) ==
  /\ IF c = "search" THEN TRUE ELSE SearchIdle
  /\ IF c = "stars" THEN TRUE ELSE StarsIdle
  /\ IF c = "enrich" THEN TRUE ELSE EnrichIdle
  /\ IF c = "resolver" THEN TRUE ELSE ResolverIdle
  /\ IF c = "age" THEN TRUE ELSE AgeIdle
  /\ IF c = "csv" THEN TRUE ELSE CsvIdle
  /\ IF c = "parse" THEN TRUE ELSE ParseIdle
  /\ IF c = "scrape" THEN TRUE ELSE ScrapeIdle
  /\ IF c = "index" THEN TRUE ELSE IndexIdle

(***************************************************************************)
(* Search-API Fetcher                                                      *)
(***************************************************************************)
\* the default page size requested from the search endpoint
DEFAULT_HITS_PER_PAGE == 1000

\* What the conversion of one raw hit does: "ok" yields a post, "notitle"
\* (empty or missing title) yields None, "raises" makes the conversion raise
\* (a field of the wrong type, an epoch out of range, a validation error).
HitKinds == {"ok", "notitle", "raises"}

\* the kinds of the hits of a page of k hits: any hit may be the one without
\* title and any hit the one whose conversion raises (at most one of each on
\* a page)
PageKinds(k) ==
  { f \in [1..k -> HitKinds] :
      /\ Cardinality({ i \in 1..k : f[i] = "notitle" }) <= 1
      /\ Cardinality({ i \in 1..k : f[i] = "raises" }) <= 1 }

\* the raw hits a server can put on one page in answer to request number r:
\* at most n hits, each with its own objectID
HitLists(r, n) ==
  UNION { { [i \in 1..k |-> [objectID |-> <<r, i>>, kind |-> f[i]]] :
              f \in PageKinds(k) } : k \in 0..n }

\* a served hit that has a title and whose conversion does not raise
IsConvertible(hit) == hit.kind = "ok"

\* _convert_api_hit_to_post: the outcome is "none" (None returned) for a hit
\* without title, "raise" when the conversion raises, else "post" with the
\* HNPost (the fields the fetcher decides)
ConvertApiHit(hit, pg) ==
  [outcome |-> CASE hit.kind = "notitle" -> "none"
                 [] hit.kind = "raises"  -> "raise"
                 [] OTHER -> "post",
   post |-> [post_id |-> hit.objectID, page_number |-> pg, rank |-> 0]]

\* a loop that gives up the page at the first hit whose conversion raises
RECURSIVE AppendHitsAbort(_, _, _)
AppendHitsAbort(acc, hits, pg) ==
  IF hits = <<>> THEN acc
  ELSE LET c == ConvertApiHit(Head(hits), pg)
       IN  IF c.outcome = "raise" THEN acc
           ELSE AppendHitsAbort(IF c.outcome = "post" THEN Append(acc, c.post)
                                ELSE acc,
                                Tail(hits), pg)

\* the for-loop over the hits of one page: a post is appended when the
\* conversion returns one; None is dropped, an exception is caught and skipped
RECURSIVE AppendHits(_, _, _)
AppendHits(acc, hits, pg) ==
  IF hits = <<>> THEN acc
  ELSE LET c == ConvertApiHit(Head(hits), pg)
       IN  AppendHits(IF c.outcome = "post" THEN Append(acc, c.post) ELSE acc,
                      Tail(hits), pg)

\* "if max_posts: remaining = max_posts - len(all_posts)"
Remaining == Val(max_posts) - Len(all_posts)

\* "if remaining <= 0: break" under "if max_posts:"
MaxPostsReached == Truthy(max_posts) /\ Remaining <= 0

\* hits_per_page of the next request
HitsPerPage ==
  IF Truthy(max_posts) THEN Min(DEFAULT_HITS_PER_PAGE, Remaining)
  ELSE DEFAULT_HITS_PER_PAGE

\* the params of the next request (have: the number of posts accumulated
\* when it is issued, kept for the history only)
SearchParams ==
  [page |-> page, hitsPerPage |-> HitsPerPage, have |-> Len(all_posts)]

\* the loop can issue one more request
CanRequest ==
  /\ sPc = "loop"
  /\ ~MaxPostsReached
  /\ Len(sRequests) < MaxRequests

\* the loop head finds the max_posts budget used up and breaks
SearchMaxReached ==
  /\ sPc = "loop"
  /\ MaxPostsReached
  /\ sPc' = "done"
  /\ UNCHANGED <<max_posts, page, all_posts, sRequests, sOutcomes,
                 sConvertible, sSleeps, sHits>>
  /\ UNCHANGED exceptSearch

\* a fetcher that puts the newest page in front of the older ones
NextPagePrepend(hits) ==
  /\ all_posts' = AppendHits(<<>>, hits, page) \o all_posts
  /\ page' = page + 1
  /\ sSleeps' = sSleeps + 1

\* page, all_posts and sSleeps after a page of hits was processed
NextPage(hits) ==
  /\ all_posts' = AppendHits(all_posts, hits, page)
  /\ page' = page + 1
  /\ sSleeps' = sSleeps + 1

\* a request answered with a non-empty page of hits
SearchPage ==
  /\ CanRequest
  /\ \E hits \in HitLists(Len(sRequests) + 1, Min(HitsPerPage, MaxHits)) :
       /\ hits # <<>>
       /\ sRequests' = Append(sRequests, SearchParams)
       /\ sOutcomes' = Append(sOutcomes, "hits")
       /\ sConvertible' = sConvertible \o
            [i \in 1..Len(SelectSeq(hits, IsConvertible)) |->
               [hit |-> SelectSeq(hits, IsConvertible)[i], page |-> page]]
       /\ sHits' = hits
       /\ NextPage(hits)
  /\ UNCHANGED <<max_posts, sPc>>
  /\ UNCHANGED exceptSearch

\* a request answered with no hits: the loop breaks
SearchEmptyPage ==
  /\ CanRequest
  /\ sRequests' = Append(sRequests, SearchParams)
  /\ sOutcomes' = Append(sOutcomes, "empty")
  /\ sHits' = <<>>
  /\ sPc' = "done"
  /\ UNCHANGED <<max_posts, page, all_posts, sConvertible, sSleeps>>
  /\ UNCHANGED exceptSearch

\* a handler that lets the request error escape
OnRequestErrorRaise == "raised"

\* what "except requests.RequestException" does: break, all_posts is returned
OnRequestError == "done"

\* a request that fails with a requests.RequestException (transport error,
\* non-2xx status, undecodable body)
SearchRequestError ==
  /\ CanRequest
  /\ sRequests' = Append(sRequests, SearchParams)
  /\ sOutcomes' = Append(sOutcomes, "error")
  /\ sPc' = OnRequestError
  /\ UNCHANGED <<max_posts, page, all_posts, sConvertible, sSleeps, sHits>>
  /\ UNCHANGED exceptSearch

\* a 200 response whose JSON body is not an object: data.get raises an
\* AttributeError, which no handler of the function catches
SearchBadBody ==
  /\ CanRequest
  /\ sRequests' = Append(sRequests, SearchParams)
  /\ sOutcomes' = Append(sOutcomes, "badbody")
  /\ sPc' = "raised"
  /\ UNCHANGED <<max_posts, page, all_posts, sConvertible, sSleeps, sHits>>
  /\ UNCHANGED exceptSearch

SearchInit ==
  /\ IdleExcept("search")
  /\ max_posts \in {None} \cup {Some(n) : n \in 0..MaxMaxPosts}
  /\ page = 0
  /\ all_posts = <<>>
  /\ sPc = "loop"
  /\ sRequests = <<>>
  /\ sOutcomes = <<>>
  /\ sConvertible = <<>>
  /\ sSleeps = 0
  /\ sHits = <<>>

SearchNext ==
  \/ SearchMaxReached
  \/ SearchPage
  \/ SearchEmptyPage
  \/ SearchRequestError
  \/ SearchBadBody

SpecSearch == SearchInit /\ [][SearchNext]_vars

\* the answer of a server that pages its result sequence by offset: for
\* (page p, hitsPerPage h) the hits at offsets p*h .. p*h+h-1
ServedHits(p, h) ==
  [i \in 1..Max(0, Min(h, Len(sIndex) - p * h)) |->
     [objectID |-> p * h + i, kind |-> sIndex[p * h + i]]]

\* a request answered by the paging server with a non-empty page of hits
IndexPage ==
  /\ CanRequest
  /\ LET hits == ServedHits(page, HitsPerPage)
     IN  /\ hits # <<>>
         /\ sRequests' = Append(sRequests, SearchParams)
         /\ sOutcomes' = Append(sOutcomes, "hits")
         /\ sConvertible' = sConvertible \o
              [i \in 1..Len(SelectSeq(hits, IsConvertible)) |->
                 [hit |-> SelectSeq(hits, IsConvertible)[i], page |-> page]]
         /\ sHits' = hits
         /\ NextPage(hits)
  /\ UNCHANGED <<max_posts, sPc>>
  /\ UNCHANGED exceptSearch

\* a request the paging server answers with no hits: the loop breaks
IndexEmptyPage ==
  /\ CanRequest
  /\ ServedHits(page, HitsPerPage) = <<>>
  /\ sRequests' = Append(sRequests, SearchParams)
  /\ sOutcomes' = Append(sOutcomes, "empty")
  /\ sHits' = <<>>
  /\ sPc' = "done"
  /\ UNCHANGED <<max_posts, page, all_posts, sConvertible, sSleeps>>
  /\ UNCHANGED exceptSearch

\* fetch_posts_in_timeframe is called with a positive max_posts against a
\* paging server that holds some result sequence
IndexInit ==
  /\ sIndex \in UNION { [1..k -> HitKinds] : k \in 0..MaxIndex }
  /\ max_posts \in {Some(n) : n \in 1..MaxMaxPosts}
  /\ page = 0
  /\ all_posts = <<>>
  /\ sPc = "loop"
  /\ sRequests = <<>>
  /\ sOutcomes = <<>>
  /\ sConvertible = <<>>
  /\ sSleeps = 0
  /\ sHits = <<>>
  /\ StarsIdle /\ EnrichIdle /\ ResolverIdle /\ AgeIdle /\ CsvIdle
  /\ ParseIdle /\ ScrapeIdle

IndexNext ==
  \/ SearchMaxReached
  \/ IndexPage
  \/ IndexEmptyPage
  \/ SearchRequestError

SpecSearchIndex == IndexInit /\ [][IndexNext]_vars

(***************************************************************************)
(* Claims about the Search-API Fetcher                                     *)
(***************************************************************************)
\* the conversions of the convertible hits served so far, in the order served
ConvertedServed ==
  [i \in 1..Len(sConvertible) |->
     ConvertApiHit(sConvertible[i].hit, sConvertible[i].page).post]

\* the requests issued so far asked for the pages 0, 1, 2, ... in this order
PagesInOrder == \A i \in 1..Len(sRequests) : sRequests[i].page = i - 1

\* a response of this kind was the answer to the last request issued
OnlyLast(kind) ==
  \A i \in 1..Len(sOutcomes) : sOutcomes[i] = kind => i = Len(sOutcomes)

\* every response but the last one was a non-empty page of hits
HitsBeforeLast == \A i \in 1..(Len(sOutcomes) - 1) : sOutcomes[i] = "hits"

\* C1: without max_posts and without a request error, a run over server
\* pages that end in an empty page returns exactly the concatenation, in page
\* order 0,1,2,... and in within-page order, of the converted hits of the
\* pages before the first empty page, and no page is requested after the
\* first empty page.
C1_ConcatUpToEmptyPage ==
  (max_posts = None /\ sOutcomes # <<>> /\ HitsBeforeLast
     /\ sOutcomes[Len(sOutcomes)] \in {"hits", "empty"})
  => /\ OnlyLast("empty")
     /\ PagesInOrder
     /\ all_posts = ConvertedServed
     /\ sOutcomes[Len(sOutcomes)] = "empty" => sPc = "done"

\* C1 witness: two non-empty pages with several convertible hits and a
\* dropped hit, then the empty page, and the run has returned
C1_Witness ==
  /\ max_posts = None
  /\ sPc = "done"
  /\ sOutcomes = <<"hits", "hits", "empty">>
  /\ Len(all_posts) = 3
  /\ all_posts[1].page_number = 0
  /\ all_posts[3].page_number = 1

\* C2: for every supplied max_posts (0 included) the number of posts returned
\* never exceeds max_posts, and each request asks for
\* min(1000, max_posts - posts accumulated so far) hits.
C2_NeverExceedsMaxPosts ==
  max_posts # None =>
    /\ Len(all_posts) <= Val(max_posts)
    /\ \A i \in 1..Len(sRequests) :
         sRequests[i].hitsPerPage =
           Min(DEFAULT_HITS_PER_PAGE, Val(max_posts) - sRequests[i].have)

\* C10: when the request for page k fails with a transport error, no further
\* request is issued, the function returns (it does not raise), and the
\* result is exactly the posts accumulated from the pages 0..k-1.
C10_ErrorReturnsAccumulated ==
  /\ OnlyLast("error")
  /\ (sOutcomes # <<>> /\ sOutcomes[Len(sOutcomes)] = "error") =>
        /\ sPc = "done"
        /\ HitsBeforeLast
        /\ PagesInOrder
        /\ all_posts = ConvertedServed
        /\ \A i \in 1..Len(all_posts) :
             all_posts[i].page_number < Len(sOutcomes) - 1

\* C10 witness: pages 0 and 1 delivered posts, the request for page 2 failed
C10_Witness ==
  /\ sPc = "done"
  /\ sOutcomes = <<"hits", "hits", "error">>
  /\ Len(all_posts) >= 2
  /\ sRequests[3].page = 2

\* C16: a delay is applied after every page request whatever its outcome:
\* also after a request that returned no hits and after one that failed with
\* a transport error.
C16_DelayAfterEveryRequest ==
  sSleeps = Len(sRequests)

\* the posts of the hits of a page that have a title and convert without
\* error, in the order of the page
PostsOfPage(hits, pg) ==
  [i \in 1..Len(SelectSeq(hits, IsConvertible)) |->
     ConvertApiHit(SelectSeq(hits, IsConvertible)[i], pg).post]

\* C17: within a page, a hit without title is dropped and a hit whose
\* conversion raises is skipped; every other hit of the page is converted and
\* appended in order, the page cursor advances by one and the fetch goes on
\* with the next page.
C17_BadHitsDoNotAbortPage ==
  [][(Len(sOutcomes') = Len(sOutcomes) + 1
      /\ sOutcomes'[Len(sOutcomes')] = "hits")
     => /\ all_posts' = all_posts \o PostsOfPage(sHits', page)
        /\ page' = page + 1
        /\ sPc' = "loop"
        /\ sRequests'[Len(sRequests')].page = page]_vars

\* C17 witness: the last page held a hit without title, a hit whose
\* conversion raises and, after them, a hit that was converted and appended;
\* the cursor has advanced and the loop goes on
C17_Witness ==
  /\ sPc = "loop"
  /\ Len(sHits) = 3
  /\ sHits[1].kind = "notitle"
  /\ sHits[2].kind = "raises"
  /\ sHits[3].kind = "ok"
  /\ all_posts # <<>>
  /\ all_posts[Len(all_posts)].post_id = sHits[3].objectID
  /\ page = Len(sRequests)
  /\ page >= 2

\* the post_id of every returned post, in order
PostIds == [i \in 1..Len(all_posts) |-> all_posts[i].post_id]

\* the offsets of the first n hits of the result sequence that convert
ConvertibleUpTo(n) ==
  SelectSeq([i \in 1..n |-> i], LAMBDA i : sIndex[i] = "ok")

\* C25: against a server that pages one fixed result sequence by offset, and
\* with a max_posts that makes the requested page size change between
\* requests, no hit appears twice in the returned list, and the returned
\* posts are the conversions of a prefix of the sequence, no hit skipped.
C25_PrefixWithoutDuplicates ==
  /\ \A i, j \in 1..Len(all_posts) : PostIds[i] = PostIds[j] => i = j
  /\ \E n \in 0..Len(sIndex) : PostIds = ConvertibleUpTo(n)

\* C26: with a positive max_posts the fetch ends after a bounded number of
\* page requests against every server: each page request but the last brings
\* at least one more post, so at most max_posts + 1 requests are issued.
C26_BoundedRequests ==
  Truthy(max_posts) => Len(sRequests) <= Val(max_posts) + 1

(***************************************************************************)
(* Star History Fetcher                                                    *)
(***************************************************************************)
\* GitHubStarTracker.STARS_PER_PAGE
STARS_PER_PAGE == 100

\* the margin added to the rate-limit wait
RATE_LIMIT_MARGIN == 5

\* self.delay, the sleep between two page requests (the default, in seconds)
STAR_DELAY == 1

\* A raw item of a stargazers page.  kind "good": starred_at is an ISO-8601
\* text and user.login is present; "malformed": a key is missing or the
\* timestamp text does not parse (KeyError, ValueError); "null": starred_at
\* or user is null (AttributeError, TypeError).  The timestamp text is the
\* instant t and its zone suffix: "Z", "+00:00" or "" (none).
GoodItem(t, suffix) ==
  [kind |-> "good", starred_at |-> [t |-> t, suffix |-> suffix], login |-> "u"]

MalformedItem ==
  [kind |-> "malformed", starred_at |-> [t |-> 0, suffix |-> ""], login |-> ""]

NullItem ==
  [kind |-> "null", starred_at |-> [t |-> 0, suffix |-> ""], login |-> ""]

\* datetime.fromisoformat(text.replace("Z", "+00:00")): the datetime is
\* timezone-aware iff the text carries a zone
ParseStarredAt(ts) == [t |-> ts.t, aware |-> ts.suffix # ""]

\* the GitHubStar built from a well-formed item
ToStar(item, repo) ==
  [repo_owner |-> repo.owner, repo_name |-> repo.repo,
   starred_at |-> ParseStarredAt(item.starred_at), user_login |-> item.login]

IsWellFormed(item) == item.kind = "good"

\* the conversion loop of fetch_stars_page over the items of a page: the
\* items that raise KeyError or ValueError are skipped
StarsOfPage(data, repo) ==
  LET good == SelectSeq(data, IsWellFormed)
  IN  [i \in 1..Len(good) |-> ToStar(good[i], repo)]

\* an item of the page raises an exception the conversion loop does not catch
PageRaises(data) == \E i \in 1..Len(data) : data[i].kind = "null"

\* a has_more that counts the converted stars instead of the raw items
HasMoreConverted(data) == Len(SelectSeq(data, IsWellFormed)) = STARS_PER_PAGE

\* "has_more = len(data) == self.STARS_PER_PAGE"
HasMore(data) == Len(data) = STARS_PER_PAGE

\* a full page of items: all well-formed, all malformed, or one well-formed
\* item followed by malformed ones
FullPage(kind) ==
  [i \in 1..STARS_PER_PAGE |->
     CASE kind = "good" -> GoodItem(1, "Z")
       [] kind = "malformed" -> MalformedItem
       [] OTHER -> IF i = 1 THEN GoodItem(1, "Z") ELSE MalformedItem]

FullPageKinds == {"good", "malformed", "mixed"}

TailItems == {GoodItem(1, "Z"), GoodItem(2, ""), MalformedItem, NullItem}

\* the repositories the server may hold: full pages, then a partial page of
\* fewer than STARS_PER_PAGE items
RepoCatalogue ==
  { [full |-> f, tail |-> t] :
      f \in UNION { [1..k -> FullPageKinds] : k \in 0..MaxFullPages },
      t \in UNION { [1..k -> TailItems] : k \in 0..MaxTail } }

\* the server's page p (1-based, STARS_PER_PAGE items a page) of a repository
PageOf(data, p) ==
  IF p <= Len(data.full) THEN FullPage(data.full[p])
  ELSE IF p = Len(data.full) + 1 THEN data.tail
  ELSE <<>>

\* "if max_pages and page > max_pages"
CapReached == Truthy(max_pages) /\ star_page > Val(max_pages)

\* the page the next request asks for: fetch_all_stars' cursor, or the page
\* argument of the retrying recursive call
ReqPage == IF stPc = "retry" THEN fp_page ELSE star_page

\* fetch_stars_page can issue a request: called from the loop, or retrying
CanStarRequest ==
  /\ \/ stPc = "loop" /\ ~CapReached
     \/ stPc = "retry"
  /\ Len(stRequests) < MaxStarRequests

\* the history entry of the request being issued: its URL and params, the
\* kind of response, the has_more the page reported, the number of stars
\* accumulated and the time when it was issued, the reset time the response
\* announced, its status code (0: no response) and its X-RateLimit-Remaining
\* header (None: missing)
StarRequest(resp, more, reset, status, remaining) ==
  [owner |-> st_repo.owner, repo |-> st_repo.repo, page |-> ReqPage,
   per_page |-> STARS_PER_PAGE, resp |-> resp, has_more |-> more,
   had |-> Len(all_stars), at |-> clock, reset |-> reset,
   status |-> status, remaining |-> remaining]

\* response.headers.get("X-RateLimit-Remaining", "0")
RemainingHeader(remaining) == IF remaining = None THEN "0" ELSE Val(remaining)

\* a test that takes every 403 for a rate limit
IsRateLimitedAny(status, remaining) == status = 403

\* "response.status_code == 403" and "rate_limit_remaining == '0'"
IsRateLimited(status, remaining) ==
  status = 403 /\ RemainingHeader(remaining) = "0"

\* the 403 responses: no rate-limit header at all (the reset time reads 0),
\* or X-RateLimit-Remaining "0" or "1" with a reset time near now
Forbidden ==
  { [remaining |-> None, reset |-> 0],
    [remaining |-> Some("0"), reset |-> clock + 2],
    [remaining |-> Some("1"), reset |-> clock + 2] }

\* the failures of a request: no response (status 0), or a status that
\* raise_for_status rejects
Failures ==
  { [status |-> 0, remaining |-> None, reset |-> 0] }
  \cup { [status |-> 403, remaining |-> f.remaining, reset |-> f.reset] :
           f \in Forbidden }

\* the loop head finds the page cap exceeded and breaks
StarsCapReached ==
  /\ stPc = "loop"
  /\ CapReached
  /\ stPc' = "done"
  /\ UNCHANGED <<repoData, st_repo, max_pages, star_page, all_stars, fp_page,
                 wait_time, clock, stRequests, stWaits>>
  /\ UNCHANGED exceptStars

\* a loop that treats an empty page as a failure
AfterPageEmptyRaises(page_stars, has_more) ==
  IF page_stars = <<>>
  THEN /\ stPc' = "raised"
       /\ UNCHANGED <<all_stars, star_page, clock>>
  ELSE /\ all_stars' = all_stars \o page_stars
       /\ IF ~has_more
          THEN /\ stPc' = "done"
               /\ UNCHANGED <<star_page, clock>>
          ELSE /\ star_page' = star_page + 1
               /\ clock' = clock + STAR_DELAY
               /\ stPc' = "loop"

\* the body of fetch_all_stars' loop after fetch_stars_page returned
\* (stars, has_more)
AfterPage(page_stars, has_more) ==
  IF page_stars = <<>>
  THEN /\ stPc' = "done"
       /\ UNCHANGED <<all_stars, star_page, clock>>
  ELSE /\ all_stars' = all_stars \o page_stars
       /\ IF ~has_more
          THEN /\ stPc' = "done"
               /\ UNCHANGED <<star_page, clock>>
          ELSE /\ star_page' = star_page + 1
               /\ clock' = clock + STAR_DELAY
               /\ stPc' = "loop"

\* a 200 response with the repository's page, every item of which converts
\* or is skipped
StarsPage ==
  /\ CanStarRequest
  /\ LET data == PageOf(repoData, ReqPage)
     IN  /\ ~PageRaises(data)
         /\ stRequests' = Append(stRequests, StarRequest("ok", HasMore(data), 0, 200, None))
         /\ AfterPage(StarsOfPage(data, st_repo), HasMore(data))
  /\ UNCHANGED <<repoData, st_repo, max_pages, fp_page, wait_time, stWaits>>
  /\ UNCHANGED exceptStars

\* a 200 response with an item whose conversion raises an exception that is
\* neither caught by the conversion loop nor a RequestException: it leaves
\* fetch_stars_page and fetch_all_stars
StarsPageRaises ==
  /\ CanStarRequest
  /\ PageRaises(PageOf(repoData, ReqPage))
  /\ stRequests' = Append(stRequests, StarRequest("raises", FALSE, 0, 200, None))
  /\ stPc' = "raised"
  /\ UNCHANGED <<repoData, st_repo, max_pages, star_page, all_stars, fp_page,
                 wait_time, clock, stWaits>>
  /\ UNCHANGED exceptStars

\* a retry that waits without the margin
RateLimitWaitNoMargin(reset) == Max(reset - clock, 0)

\* "wait_time = max(reset_time - time.time(), 0) + 5"
RateLimitWait(reset) == Max(reset - clock, 0) + RATE_LIMIT_MARGIN

\* a retry that asks for the following page
RetryNextPage(p) == p + 1

\* the page argument of the recursive call fetch_stars_page(owner, repo, page)
RetryPage(p) == p

\* a 403 response whose X-RateLimit-Remaining reads "0" (or is missing, which
\* reads as "0"): fetch_stars_page sleeps and then calls itself
StarsRateLimited ==
  /\ CanStarRequest
  /\ Len(stWaits) < MaxRateLimited
  /\ \E f \in Forbidden :
       /\ IsRateLimited(403, f.remaining)
       /\ wait_time' = RateLimitWait(f.reset)
       /\ stRequests' = Append(stRequests,
             StarRequest("limited", FALSE, f.reset, 403, f.remaining))
  /\ fp_page' = RetryPage(ReqPage)
  /\ stPc' = "wait"
  /\ UNCHANGED <<repoData, st_repo, max_pages, star_page, all_stars, clock,
                 stWaits>>
  /\ UNCHANGED exceptStars

\* a fetch_stars_page that gives up after one sleep
AfterWaitGiveUp == "done"

\* after the sleep: "return self.fetch_stars_page(owner, repo, page)"
AfterWait == "retry"

\* time.sleep(wait_time) returns and fetch_stars_page calls itself
StarsWake ==
  /\ stPc = "wait"
  /\ clock' = clock + wait_time
  /\ stWaits' = Append(stWaits, [after |-> Len(stRequests), secs |-> wait_time])
  /\ wait_time' = 0
  /\ stPc' = AfterWait
  /\ UNCHANGED <<repoData, st_repo, max_pages, star_page, all_stars, fp_page,
                 stRequests>>
  /\ UNCHANGED exceptStars

\* a 422 or 404 response: fetch_stars_page returns ([], False)
StarsNotFound ==
  /\ CanStarRequest
  /\ \E status \in {422, 404} :
       stRequests' = Append(stRequests,
                            StarRequest("notfound", FALSE, 0, status, None))
  /\ AfterPage(<<>>, FALSE)
  /\ UNCHANGED <<repoData, st_repo, max_pages, fp_page, wait_time, stWaits>>
  /\ UNCHANGED exceptStars

\* what fetch_all_stars does with a RequestException of fetch_stars_page:
\* break, all_stars is returned
OnStarsError == "done"

\* a transport error, or a status raise_for_status rejects (a 403 that is not
\* taken for a rate limit, a 5xx): fetch_stars_page re-raises the
\* RequestException
StarsRequestError ==
  /\ CanStarRequest
  /\ \E f \in Failures :
       /\ ~IsRateLimited(f.status, f.remaining)
       /\ stRequests' = Append(stRequests,
             StarRequest("error", FALSE, f.reset, f.status, f.remaining))
  /\ stPc' = OnStarsError
  /\ UNCHANGED <<repoData, st_repo, max_pages, star_page, all_stars, fp_page,
                 wait_time, clock, stWaits>>
  /\ UNCHANGED exceptStars

\* fetch_all_stars(owner, repo, max_pages) has been called
StarsInit ==
  /\ IdleExcept("stars")
  /\ repoData \in RepoCatalogue
  /\ st_repo = [owner |-> "o", repo |-> "r1"]
  /\ max_pages \in {None} \cup {Some(n) : n \in 0..MaxMaxPages}
  /\ star_page = 1
  /\ all_stars = <<>>
  /\ stPc = "loop"
  /\ fp_page = 1
  /\ wait_time = 0
  /\ clock = 0
  /\ stRequests = <<>>
  /\ stWaits = <<>>

StarsNext ==
  \/ StarsCapReached
  \/ StarsPage
  \/ StarsPageRaises
  \/ StarsRateLimited
  \/ StarsWake
  \/ StarsNotFound
  \/ StarsRequestError

SpecStars == StarsInit /\ [][StarsNext]_vars

\* fetch_all_stars has been called for a repository of one item or of one
\* full page
RetryInit ==
  /\ StarsInit
  /\ \/ repoData.full = <<>> /\ Len(repoData.tail) = 1
     \/ repoData.full = <<"good">> /\ repoData.tail = <<>>
  /\ max_pages \in {None, Some(1)}

\* the sleep returns and every request is answered or times out (timeout=30)
SpecStarsFair == RetryInit /\ [][StarsNext]_vars /\ WF_vars(StarsNext)

(***************************************************************************)
(* Claims about the Star History Fetcher                                   *)
(***************************************************************************)
\* every raw item of the repository, in the server's order
RepoItems ==
  LET RECURSIVE Flat(_)
      Flat(k) == IF k = 0 THEN <<>>
                 ELSE Flat(k - 1) \o FullPage(repoData.full[k])
  IN  Flat(Len(repoData.full)) \o repoData.tail

\* the stars of the pages received so far, in the order received
RECURSIVE ReceivedStars(_)
ReceivedStars(k) ==
  IF k = 0 THEN <<>>
  ELSE ReceivedStars(k - 1) \o
         (IF stRequests[k].resp = "ok"
          THEN StarsOfPage(PageOf(repoData, stRequests[k].page), st_repo)
          ELSE <<>>)

\* the requests answered with a page, in the order issued
PageRequests == SelectSeq(stRequests, LAMBDA r : r.resp = "ok")

\* the completed rate-limit sleeps that followed request number i
WaitsAfter(i) == { w \in 1..Len(stWaits) : stWaits[w].after = i }

\* C5: each 403 response with a zero remaining quota causes exactly one wait,
\* until the reset time plus 5 seconds, and then a retry of the same page
\* with the same owner and name; the page is neither skipped nor reported as
\* a failure, and the result is that of the retried request.
C5_RateLimitRetriesSamePage ==
  /\ \A i \in 1..Len(stRequests) :
       stRequests[i].resp = "limited" =>
         /\ i < Len(stRequests) =>
              /\ stRequests[i + 1].owner = stRequests[i].owner
              /\ stRequests[i + 1].repo = stRequests[i].repo
              /\ stRequests[i + 1].page = stRequests[i].page
              /\ stRequests[i + 1].had = stRequests[i].had
              /\ Cardinality(WaitsAfter(i)) = 1
         /\ i = Len(stRequests) =>
              /\ stPc \in {"wait", "retry"}
              /\ Cardinality(WaitsAfter(i)) = IF stPc = "retry" THEN 1 ELSE 0
              /\ Len(all_stars) = stRequests[i].had
         /\ \A w \in WaitsAfter(i) :
              /\ stWaits[w].secs =
                   Max(stRequests[i].reset - stRequests[i].at, 0) + RATE_LIMIT_MARGIN
              /\ stRequests[i].at + stWaits[w].secs
                   >= stRequests[i].reset + RATE_LIMIT_MARGIN
  /\ \A w \in 1..Len(stWaits) : stRequests[stWaits[w].after].resp = "limited"
  /\ \A j \in 1..Len(PageRequests) : PageRequests[j].page = j
  /\ stPc # "raised" => all_stars = ReceivedStars(Len(stRequests))

\* C5 witness: page 1 was delivered, the request for page 2 was rate-limited
\* twice, with the reset time ahead and behind, and its second retry
\* delivered the page; the run has returned the stars of both pages
C5_Witness ==
  /\ stPc = "done"
  /\ Len(stRequests) = 4
  /\ stRequests[1].resp = "ok"
  /\ stRequests[2].resp = "limited" /\ stRequests[2].page = 2
  /\ stRequests[3].resp = "limited" /\ stRequests[3].reset > stRequests[3].at
  /\ stRequests[4].resp = "ok" /\ stRequests[4].page = 2
  /\ Len(stWaits) = 2
  /\ Len(all_stars) = STARS_PER_PAGE + 1

\* C8: with no page cap and no transport error the result holds every
\* well-formed event of the repository: malformed items are skipped one by
\* one and pagination goes on, also after a full page of malformed items.
C8_EveryWellFormedEvent ==
  (/\ stPc = "done"
   /\ max_pages = None
   /\ \A i \in 1..Len(stRequests) : stRequests[i].resp \in {"ok", "limited"})
  => all_stars = StarsOfPage(RepoItems, st_repo)

\* the last request issued
LastStarRequest == stRequests[Len(stRequests)]

\* C9: the run loop ends exactly when a page reports no more pages, the page
\* cap is reached, or fetch_stars_page raises a transport error; in that last
\* case nothing propagates and the events accumulated so far are returned.
C9_LoopEndsOnlyOnNoMoreCapOrError ==
  /\ stPc = "done" =>
       \/ CapReached
       \/ /\ stRequests # <<>>
          /\ \/ LastStarRequest.resp = "error"
             \/ /\ LastStarRequest.resp \in {"ok", "notfound"}
                /\ ~LastStarRequest.has_more
  /\ (stRequests # <<>> /\ LastStarRequest.resp = "error") =>
       /\ stPc = "done"
       /\ Len(all_stars) = LastStarRequest.had
       /\ all_stars = ReceivedStars(Len(stRequests))

\* C20: a 422 or 404 response yields (empty page, no more pages) without
\* raising; fetch_all_stars then ends normally and returns the events of the
\* earlier pages; these statuses cause no wait and no retry.
C20_NotFoundEndsNormally ==
  \A i \in 1..Len(stRequests) :
    stRequests[i].resp = "notfound" =>
      /\ i = Len(stRequests)
      /\ stPc = "done"
      /\ ~stRequests[i].has_more
      /\ WaitsAfter(i) = {}
      /\ wait_time = 0
      /\ Len(all_stars) = stRequests[i].had
      /\ all_stars = ReceivedStars(i - 1)

\* C20 witness: page 1 delivered a full page of events, the request for
\* page 2 was answered 422 or 404, and the run has returned the events of
\* page 1
C20_Witness ==
  /\ stPc = "done"
  /\ Len(stRequests) = 2
  /\ stRequests[1].resp = "ok"
  /\ stRequests[2].resp = "notfound"
  /\ stRequests[2].page = 2
  /\ Len(all_stars) = STARS_PER_PAGE

\* every item of the repository is a well-formed event
AllEvents == \A i \in 1..Len(RepoItems) : IsWellFormed(RepoItems[i])

\* every request of the run was answered with a page
OnlyPages == \A i \in 1..Len(stRequests) : stRequests[i].resp = "ok"

\* C21: fetch_stars_page reports "has more pages" iff the raw page held
\* exactly 100 items, malformed ones counted; so with no page cap a repository
\* of k*100 events (k >= 1) takes k+1 page requests, the last one returning an
\* empty page, and all k*100 events are returned, and a repository whose
\* count is not a multiple of 100 takes ceil(count/100) requests.
C21_HasMoreIffFullPage ==
  /\ \A i \in 1..Len(stRequests) :
       stRequests[i].resp = "ok" =>
         (stRequests[i].has_more <=>
            Len(PageOf(repoData, stRequests[i].page)) = 100)
  /\ (stPc = "done" /\ max_pages = None /\ OnlyPages /\ AllEvents) =>
       LET count == Len(RepoItems)
       IN  IF count % 100 = 0
           THEN count >= 100 =>
                  /\ Len(stRequests) = count \div 100 + 1
                  /\ PageOf(repoData, LastStarRequest.page) = <<>>
                  /\ Len(all_stars) = count
           ELSE Len(stRequests) = (count + 99) \div 100

\* C21 witness: a repository of exactly 100 events, no cap: two requests were
\* issued, the second one returned the empty page, 100 events are returned
C21_Witness ==
  /\ stPc = "done"
  /\ max_pages = None
  /\ OnlyPages /\ AllEvents
  /\ Len(RepoItems) = 100
  /\ Len(stRequests) = 2
  /\ stRequests[1].has_more
  /\ PageOf(repoData, 2) = <<>>
  /\ Len(all_stars) = 100

\* the page indices fetch_stars_page was called for, retries not counted twice
PagesAsked == { stRequests[i].page : i \in 1..Len(stRequests) }

\* C27: for every supplied max_pages, 0 included, fetch_stars_page is called
\* for at most max_pages distinct page indices, the indices are 1, 2, ... in
\* increasing order without gaps, and the result holds at most
\* 100 * max_pages events.
C27_PageCapHolds ==
  /\ PagesAsked = 1..Cardinality(PagesAsked)
  /\ \A i \in 1..Len(stRequests) - 1 :
       stRequests[i + 1].page \in {stRequests[i].page, stRequests[i].page + 1}
  /\ max_pages # None =>
       /\ Cardinality(PagesAsked) <= Val(max_pages)
       /\ Len(all_stars) <= 100 * Val(max_pages)

\* C29: a 403 response is retried only when its remaining-quota header reads
\* zero or is missing; a 403 with a non-zero remaining quota is not waited on
\* or retried but raised as a transport error from fetch_stars_page, and
\* fetch_all_stars then stops and returns the events accumulated so far.
C29_ForbiddenRetriedOnlyOnZeroQuota ==
  \A i \in 1..Len(stRequests) :
    /\ stRequests[i].resp = "limited" =>
         /\ stRequests[i].status = 403
         /\ stRequests[i].remaining \in {None, Some("0")}
    /\ stRequests[i].status = 403 =>
         IF stRequests[i].remaining \in {None, Some("0")}
         THEN /\ stRequests[i].resp = "limited"
              /\ i = Len(stRequests) => stPc \in {"wait", "retry"}
              /\ i < Len(stRequests) =>
                   /\ Cardinality(WaitsAfter(i)) = 1
                   /\ stRequests[i + 1].page = stRequests[i].page
         ELSE /\ stRequests[i].resp = "error"
              /\ WaitsAfter(i) = {}
              /\ i = Len(stRequests)
              /\ stPc = "done"
              /\ Len(all_stars) = stRequests[i].had
              /\ all_stars = ReceivedStars(i - 1)

\* C29 witness: a 403 without the remaining-quota header was waited on and
\* page 1 then delivered; the request for page 2 got a 403 with quota left,
\* and the run has returned the events of page 1
C29_Witness ==
  /\ stPc = "done"
  /\ Len(stRequests) = 3
  /\ stRequests[1].status = 403 /\ stRequests[1].remaining = None
  /\ stRequests[2].resp = "ok" /\ stRequests[2].page = 1
  /\ stRequests[3].status = 403 /\ stRequests[3].remaining = Some("1")
  /\ stRequests[3].page = 2
  /\ Len(stWaits) = 1
  /\ Len(all_stars) = STARS_PER_PAGE

\* the rate-limited responses received so far
LimitedRequests == SelectSeq(stRequests, LAMBDA r : r.resp = "limited")

\* fetch_stars_page is sleeping or retrying after a rate-limited response
Retrying == stPc \in {"wait", "retry"}

\* C22: the rate-limit retry has no cap of its own: fetch_stars_page returns
\* only after a response that is not a 403 with zero quota; when the server
\* gives such a response the call ends with it, after exactly as many waits
\* as rate-limited responses were received; while the server keeps answering
\* 403 with zero quota the call does not return.
C22_RetriesUntilOtherResponse ==
  /\ [](stRequests # <<>> =>
          (LastStarRequest.resp = "limited" <=> Retrying))
  /\ [](stPc # "wait" => Len(stWaits) = Len(LimitedRequests))
  /\ [](stPc = "wait" => Len(stWaits) = Len(LimitedRequests) - 1)
  /\ (Retrying ~> (~Retrying \/ Len(stRequests) >= MaxStarRequests))

\* C22 witness: the request for page 1 was rate-limited twice and its second
\* retry delivered the page; the run has returned after two waits
C22_Witness ==
  /\ stPc = "done"
  /\ Len(stRequests) = 3
  /\ stRequests[1].resp = "limited" /\ stRequests[1].page = 1
  /\ stRequests[2].resp = "limited" /\ stRequests[2].page = 1
  /\ stRequests[3].resp = "ok" /\ stRequests[3].page = 1
  /\ Len(stWaits) = 2
  /\ Len(all_stars) = 1

(***************************************************************************)
(* Repository-URL Resolver                                                 *)
(***************************************************************************)
\* A URL as urlparse sees it: the network location, and the path split at
\* "/".  A path segment is a sequence of text chunks (so that a ".git"
\* suffix can be seen and cut off); <<>> is the empty segment.
Url(netloc, path) == [netloc |-> netloc, path |-> path]

\* a resolver that keeps the suffix
KeepGit(seg) == seg

\* "if repo.endswith('.git'): repo = repo[:-4]"
StripGit(seg) ==
  IF seg # <<>> /\ seg[Len(seg)] = ".git" THEN SubSeq(seg, 1, Len(seg) - 1)
  ELSE seg

\* extract_repo_info: None, or the pair (owner, repo)
ExtractRepoInfo(url) ==
  IF url = None THEN None
  ELSE IF Val(url).netloc \notin {"github.com", "www.github.com"} THEN None
  ELSE LET path_parts == SelectSeq(Val(url).path, LAMBDA seg : seg # <<>>)
       IN  IF Len(path_parts) < 2 THEN None
           ELSE Some([owner |-> path_parts[1], repo |-> StripGit(path_parts[2])])

\* A URL text is a sequence of tokens: a scheme, a host, the separator "/",
\* chunks of a path segment, a query or a fragment.
Schemes == {"https://", "http://"}

GithubHosts == {"github.com", "www.github.com"}

\* "[::1" is a host urlparse rejects (ValueError: Invalid IPv6 URL)
Hosts == GithubHosts \cup {"gist.github.com", "example.com", "[::1"}

Chunks == {"o", "r", ".git"}

Trailers == {"?tab", "#top"}

RECURSIVE SplitAtSlash(_)
\* str.split("/"): the segments between the separators, empty ones included
SplitAtSlash(toks) ==
  IF toks = <<>> THEN << <<>> >>
  ELSE LET r == SplitAtSlash(Tail(toks))
       IN  IF Head(toks) = "/" THEN << <<>> >> \o r
           ELSE << <<Head(toks)>> \o r[1] >> \o Tail(r)

\* the tokens before the query or the fragment
BeforeTrailer(toks) ==
  IF \E i \in 1..Len(toks) : toks[i] \in Trailers
  THEN SubSeq(toks, 1, (CHOOSE i \in 1..Len(toks) :
                          /\ toks[i] \in Trailers
                          /\ \A j \in 1..(i - 1) : toks[j] \notin Trailers) - 1)
  ELSE toks

\* the text has "scheme://host"
HasNetloc(text) ==
  Len(text) >= 2 /\ text[1] \in Schemes /\ text[2] \in Hosts

\* urlparse(url) raises
UrlParseRaises(text) == HasNetloc(text) /\ text[2] = "[::1"

\* urlparse(url): netloc and path (the path already split at "/"); without
\* "scheme://" the whole text up to the query is the path
UrlParse(text) ==
  IF HasNetloc(text)
  THEN Url(text[2], SplitAtSlash(BeforeTrailer(SubSeq(text, 3, Len(text)))))
  ELSE Url("", SplitAtSlash(BeforeTrailer(text)))

\* extract_repo_info on a text whose parsing does not raise ("if not url:
\* return None" for the empty text)
ExtractRepoInfoOfText(text) ==
  IF text = <<>> THEN None ELSE ExtractRepoInfo(Some(UrlParse(text)))

\* the paths tried: any token sequence; after a host a path starts with "/"
UrlPaths ==
  UNION { [1..k -> Chunks \cup {"/"}] : k \in 0..MaxUrlPath }

\* the URL texts tried
UrlTexts ==
  { pre \o path \o post :
      pre \in {<<>>} \cup { <<h>> : h \in GithubHosts }
              \cup { <<sc, h>> : sc \in Schemes, h \in Hosts },
      path \in { q \in UrlPaths : q = <<>> \/ q[1] = "/" },
      post \in {<<>>} \cup { <<t>> : t \in Trailers } }

\* a handler that lets the parse error escape
OnUrlErrorRaise == "raised"

\* "except Exception: return None"
OnUrlError == "returned"

\* lines 81-104: the call returns None or the pair
ResolverReturns ==
  /\ rPc = "call"
  /\ ~UrlParseRaises(rUrl)
  /\ rResult' = ExtractRepoInfoOfText(rUrl)
  /\ rPc' = "returned"
  /\ UNCHANGED rUrl
  /\ UNCHANGED exceptResolver

\* lines 85, 106-108: urlparse raises, the handler returns None
ResolverParseError ==
  /\ rPc = "call"
  /\ UrlParseRaises(rUrl)
  /\ rResult' = None
  /\ rPc' = OnUrlError
  /\ UNCHANGED rUrl
  /\ UNCHANGED exceptResolver

\* extract_repo_info(url) has been called
ResolverInit ==
  /\ IdleExcept("resolver")
  /\ rUrl \in UrlTexts
  /\ rResult = None
  /\ rPc = "call"

ResolverNext ==
  \/ ResolverReturns
  \/ ResolverParseError

SpecResolver == ResolverInit /\ [][ResolverNext]_vars

(***************************************************************************)
(* Claims about the Repository-URL Resolver                                *)
(***************************************************************************)
\* the owner and repository names tried: non-empty texts without "/" that do
\* not end in ".git"
RepoNames == { <<"o">>, <<"r">>, <<"o", "r">>, <<".git", "r">> }

\* the text "scheme://host/owner/name" followed by tail
RepoUrl(sc, h, owner, name, tail) ==
  <<sc, h, "/">> \o owner \o <<"/">> \o name \o tail

\* the number of non-empty segments of the path of the text: the places
\* where a chunk follows a "/" or starts the path
NonEmptySegments(text) ==
  LET path == BeforeTrailer(IF HasNetloc(text) THEN SubSeq(text, 3, Len(text))
                            ELSE text)
  IN  Cardinality({ i \in 1..Len(path) :
                      /\ path[i] # "/"
                      /\ (i = 1 \/ path[i - 1] = "/") })

\* C12: for every URL scheme://github.com/{owner}/{name} or
\* .../{owner}/{name}.git (host github.com or www.github.com) the resolver
\* returns exactly (owner, name), a trailing ".git" removed; for every URL
\* with another host or with fewer than two non-empty path segments it
\* returns None; it never raises.
C12_ResolverOwnerAndName ==
  /\ rPc # "raised"
  /\ rPc = "returned" =>
       /\ \A sc \in Schemes, h \in GithubHosts, owner \in RepoNames,
             name \in RepoNames, g \in {<<>>, <<".git">>},
             t \in {<<>>} \cup { <<x>> : x \in Trailers } :
             rUrl = RepoUrl(sc, h, owner, name, g \o t)
               => rResult = Some([owner |-> owner, repo |-> name])
       /\ (~HasNetloc(rUrl) \/ rUrl[2] \notin GithubHosts
             \/ NonEmptySegments(rUrl) < 2) => rResult = None

\* C12 witness: the call for https://www.github.com/o/r.git has returned the
\* pair (o, r)
C12_Witness ==
  /\ rPc = "returned"
  /\ rUrl = <<"https://", "www.github.com", "/", "o", "/", "r", ".git">>
  /\ rResult = Some([owner |-> <<"o">>, repo |-> <<"r">>])

(***************************************************************************)
(* Enrichment Pipeline                                                     *)
(***************************************************************************)
\* an assignment list whose first target is the post's URL
EnrichFieldsClobber ==
  <<"url", "github_total_stars", "github_stars_before_hn",
    "github_stars_after_hn", "github_stars_fetched_at">>

\* the five enrichment fields of HNPost, in the order they are assigned
EnrichFields ==
  <<"github_repo_full_name", "github_total_stars", "github_stars_before_hn",
    "github_stars_after_hn", "github_stars_fetched_at">>

\* the keys of a star_data entry of the memo, in the order they are copied
StarDataKeys ==
  <<"repo_full_name", "total_stars", "stars_before_hn", "stars_after_hn",
    "fetched_at">>

\* an HNPost as a fetcher builds it: the enrichment fields are absent
NewPost(id, url, flag, posted_at) ==
  [post_id |-> id, url |-> url, is_github_link |-> flag, posted_at |-> posted_at,
   github_repo_full_name |-> None, github_total_stars |-> None,
   github_stars_before_hn |-> None, github_stars_after_hn |-> None,
   github_stars_fetched_at |-> None]

\* a naive datetime (datetime.fromtimestamp, datetime.now() - timedelta)
Naive(t) == [t |-> t, aware |-> FALSE]

\* The posts tried: (url, is_github_link, posted_at).  The flag is what the
\* fetchers compute, "github.com" in url.lower().
PostChoices ==
  { \* https://github.com/o/r1
    <<Some(Url("github.com", << <<>>, <<"o">>, <<"r1">> >>)), TRUE, Some(Naive(2))>>,
    <<Some(Url("github.com", << <<>>, <<"o">>, <<"r1">> >>)), TRUE, None>>,
    \* https://www.github.com/o/r1.git
    <<Some(Url("www.github.com", << <<>>, <<"o">>, <<"r1", ".git">> >>)), TRUE,
      Some(Naive(1))>>,
    \* https://github.com/o/r2
    <<Some(Url("github.com", << <<>>, <<"o">>, <<"r2">> >>)), TRUE, Some(Naive(2))>>,
    \* https://github.com/o
    <<Some(Url("github.com", << <<>>, <<"o">> >>)), TRUE, Some(Naive(2))>>,
    \* https://example.com/o/r1
    <<Some(Url("example.com", << <<>>, <<"o">>, <<"r1">> >>)), FALSE, Some(Naive(2))>>,
    \* no URL
    <<None, FALSE, Some(Naive(2))>> }

\* the post lists tried
PostLists ==
  UNION { { [i \in 1..n |-> NewPost(i, c[i][1], c[i][2], c[i][3])] :
              c \in [1..n -> PostChoices] } : n \in 0..MaxPosts }

\* the instants of the star events tried
StarTimes == 0..3

RECURSIVE SortedSeq(_)
SortedSeq(S) ==
  IF S = {} THEN <<>>
  ELSE LET m == CHOOSE x \in S : \A y \in S : x <= y
       IN  <<m>> \o SortedSeq(S \ {m})

\* What fetch_all_stars(owner, repo) may return: the GitHubStar list of the
\* repository, in the server's (chronological) order, the timestamps all
\* with a zone ("...Z", aware) or all without (naive).
StarLists(name) ==
  { [i \in 1..Len(SortedSeq(S)) |->
       [repo_owner |-> name.owner, repo_name |-> name.repo,
        starred_at |-> [t |-> SortedSeq(S)[i], aware |-> a], user_login |-> "u"]] :
      S \in SUBSET StarTimes, a \in BOOLEAN }

\* "github_posts = [p for p in posts if p.is_github_link and p.url]", as the
\* positions in posts (the list holds the same objects)
GithubPosts ==
  SelectSeq([i \in 1..Len(posts) |-> i],
            LAMBDA i : posts[i].is_github_link /\ posts[i].url # None)

\* the position in posts of the post of the current iteration
Cur == GithubPosts[ei]

\* a "continue" that also passes over the following post
ContinueSkipNext ==
  /\ ei' = ei + 2
  /\ ePc' = "loop"
  /\ eStep' = 1
  /\ repo_full_name' = NoRepo
  /\ stars' = <<>>
  /\ counts' = NoCounts

\* "continue": the next iteration of the for loop (the locals of the
\* iteration are dead from here on)
Continue ==
  /\ ei' = ei + 1
  /\ ePc' = "loop"
  /\ eStep' = 1
  /\ repo_full_name' = NoRepo
  /\ stars' = <<>>
  /\ counts' = NoCounts

\* lines 125-135: the filter, and the early return (line 129) without GitHub posts
EnrichStart ==
  /\ ePc = "start"
  /\ ePc' = IF GithubPosts = <<>> THEN "returned" ELSE "loop"
  /\ UNCHANGED <<posts, ei, eStep, repo_full_name, stars, counts,
                 processed_repos, eNow, fetchCalls, eInterrupt, eFetched>>
  /\ UNCHANGED exceptEnrich

\* the for loop is exhausted: lines 214-215
EnrichDone ==
  /\ ePc = "loop"
  /\ ei > Len(GithubPosts)
  /\ ePc' = "returned"
  /\ UNCHANGED <<posts, ei, eStep, repo_full_name, stars, counts,
                 processed_repos, eNow, fetchCalls, eInterrupt, eFetched>>
  /\ UNCHANGED exceptEnrich

\* a handler that lets the exception of a post escape
OnPostErrorRaise ==
  /\ ePc' = "raised"
  /\ UNCHANGED <<ei, eStep, repo_full_name, stars, counts>>

\* lines 210-212: "except Exception" prints the error and continues
OnPostError == Continue

\* lines 143-146: the URL resolves to no repository
EnrichSkipUnresolved ==
  /\ ePc = "loop"
  /\ ei <= Len(GithubPosts)
  /\ ExtractRepoInfo(posts[Cur].url) = None
  /\ eNow' = eNow + 1
  /\ Continue
  /\ UNCHANGED <<posts, processed_repos, fetchCalls, eInterrupt, eFetched>>
  /\ UNCHANGED exceptEnrich

\* lines 148-153: the repository is in the memo
EnrichMemoHit ==
  /\ ePc = "loop"
  /\ ei <= Len(GithubPosts)
  /\ ExtractRepoInfo(posts[Cur].url) # None
  /\ Val(ExtractRepoInfo(posts[Cur].url)) \in DOMAIN processed_repos
  /\ repo_full_name' = Val(ExtractRepoInfo(posts[Cur].url))
  /\ eNow' = eNow + 1
  /\ ePc' = "copy"
  /\ eStep' = 1
  /\ UNCHANGED <<posts, ei, stars, counts, processed_repos, fetchCalls,
                 eInterrupt, eFetched>>
  /\ UNCHANGED exceptEnrich

\* lines 148-152, 162: the repository is met for the first time
EnrichFirstEncounter ==
  /\ ePc = "loop"
  /\ ei <= Len(GithubPosts)
  /\ ExtractRepoInfo(posts[Cur].url) # None
  /\ Val(ExtractRepoInfo(posts[Cur].url)) \notin DOMAIN processed_repos
  /\ repo_full_name' = Val(ExtractRepoInfo(posts[Cur].url))
  /\ eNow' = eNow + 1
  /\ ePc' = "fetch"
  /\ UNCHANGED <<posts, ei, eStep, stars, counts, processed_repos, fetchCalls,
                 eInterrupt, eFetched>>
  /\ UNCHANGED exceptEnrich

\* lines 154-160: one of the five assignments from the memo, then continue
EnrichCopy ==
  /\ ePc = "copy"
  /\ LET star_data == processed_repos[repo_full_name]
         v == star_data[StarDataKeys[eStep]]
     IN  posts' = [posts EXCEPT ![Cur][EnrichFields[eStep]] =
                     IF eStep = 5 THEN v ELSE Some(v)]
  /\ IF eStep = 5
     THEN Continue
     ELSE /\ eStep' = eStep + 1
          /\ UNCHANGED <<ei, ePc, repo_full_name, stars, counts>>
  /\ UNCHANGED <<processed_repos, eNow, fetchCalls, eInterrupt, eFetched>>
  /\ UNCHANGED exceptEnrich

\* lines 164-170: fetch_all_stars returns; an empty list skips the post
EnrichFetch ==
  /\ ePc = "fetch"
  /\ fetchCalls' = Append(fetchCalls, repo_full_name)
  /\ \E got \in StarLists(repo_full_name) :
       /\ eFetched' = Append(eFetched, [repo |-> repo_full_name, post |-> Cur,
                                        raised |-> FALSE, stars |-> got])
       /\ IF got = <<>>
          THEN Continue
          ELSE /\ stars' = got
               /\ ePc' = "count"
               /\ UNCHANGED <<ei, eStep, repo_full_name, counts>>
  /\ UNCHANGED <<posts, processed_repos, eNow, eInterrupt>>
  /\ UNCHANGED exceptEnrich

\* lines 164, 210-212: fetch_all_stars raises an exception that is not a
\* RequestException (an item with a null field); the post is skipped
EnrichFetchRaises ==
  /\ ePc = "fetch"
  /\ fetchCalls' = Append(fetchCalls, repo_full_name)
  /\ eFetched' = Append(eFetched, [repo |-> repo_full_name, post |-> Cur,
                                   raised |-> TRUE, stars |-> <<>>])
  /\ OnPostError
  /\ UNCHANGED <<posts, processed_repos, eNow, eInterrupt>>
  /\ UNCHANGED exceptEnrich

\* "s.starred_at < post.posted_at" between an aware and a naive datetime
\* raises TypeError
CompareRaises(a, b) == a.aware # b.aware

\* the comparisons of lines 177-183 raise
CountRaises ==
  /\ posts[Cur].posted_at # None
  /\ \E i \in 1..Len(stars) :
       CompareRaises(stars[i].starred_at, Val(posts[Cur].posted_at))

\* "len([s for s in stars if s.starred_at < post.posted_at])"
StarsBefore(at) ==
  Cardinality({ i \in 1..Len(stars) : stars[i].starred_at.t < at.t })

\* "len([s for s in stars if s.starred_at >= post.posted_at])"
StarsAfter(at) ==
  Cardinality({ i \in 1..Len(stars) : stars[i].starred_at.t >= at.t })

\* lines 173-183: total_stars, stars_before, stars_after
EnrichCount ==
  /\ ePc = "count"
  /\ ~CountRaises
  /\ counts' =
       IF posts[Cur].posted_at = None
       THEN [total_stars |-> Len(stars), stars_before |-> 0, stars_after |-> 0]
       ELSE [total_stars |-> Len(stars),
             stars_before |-> StarsBefore(Val(posts[Cur].posted_at)),
             stars_after |-> StarsAfter(Val(posts[Cur].posted_at))]
  /\ ePc' = "set"
  /\ eStep' = 1
  /\ UNCHANGED <<posts, ei, repo_full_name, stars, processed_repos, eNow,
                 fetchCalls, eInterrupt, eFetched>>
  /\ UNCHANGED exceptEnrich

\* lines 177-183, 210-212: the TypeError of the comparison is caught by
\* "except Exception" and the post is skipped
EnrichCountRaises ==
  /\ ePc = "count"
  /\ CountRaises
  /\ OnPostError
  /\ UNCHANGED <<posts, processed_repos, eNow, fetchCalls, eInterrupt, eFetched>>
  /\ UNCHANGED exceptEnrich

\* the value assigned by the k-th of the assignments of lines 186-190
SetValue(k) ==
  CASE k = 1 -> repo_full_name
    [] k = 2 -> counts.total_stars
    [] k = 3 -> counts.stars_before
    [] k = 4 -> counts.stars_after
    [] OTHER -> eNow

\* lines 186-190: one of the five assignments
EnrichSet ==
  /\ ePc = "set"
  /\ posts' = [posts EXCEPT ![Cur][EnrichFields[eStep]] = Some(SetValue(eStep))]
  /\ IF eStep = 5
     THEN /\ ePc' = "cache"
          /\ eStep' = 1
     ELSE /\ eStep' = eStep + 1
          /\ UNCHANGED ePc
  /\ UNCHANGED <<ei, repo_full_name, stars, counts, processed_repos, eNow,
                 fetchCalls, eInterrupt, eFetched>>
  /\ UNCHANGED exceptEnrich

\* lines 197-203: the result is stored in the memo; the iteration ends
EnrichCache ==
  /\ ePc = "cache"
  /\ processed_repos' =
       (repo_full_name :>
          [repo_full_name |-> repo_full_name,
           total_stars |-> counts.total_stars,
           stars_before_hn |-> counts.stars_before,
           stars_after_hn |-> counts.stars_after,
           fetched_at |-> posts[Cur].github_stars_fetched_at])
       @@ processed_repos
  /\ Continue
  /\ UNCHANGED <<posts, eNow, fetchCalls, eInterrupt, eFetched>>
  /\ UNCHANGED exceptEnrich

\* the statements of the loop body inside "try:" (lines 162-203)
InTry == {"fetch", "count", "set", "cache"}

\* the statements of the loop body outside "try:" (lines 137-160)
OutsideTry == {"loop", "copy"}

\* a KeyboardInterrupt arrives inside the try block: lines 205-209 return
\* posts
EnrichInterruptInTry ==
  /\ ePc \in InTry
  /\ eInterrupt' = ePc
  /\ ePc' = "returned"
  /\ UNCHANGED <<posts, ei, eStep, repo_full_name, stars, counts,
                 processed_repos, eNow, fetchCalls, eFetched>>
  /\ UNCHANGED exceptEnrich

\* a KeyboardInterrupt arrives in the loop outside the try block: no handler
\* of the function catches it
EnrichInterruptOutsideTry ==
  /\ ePc \in OutsideTry
  /\ eInterrupt' = ePc
  /\ ePc' = "raised"
  /\ UNCHANGED <<posts, ei, eStep, repo_full_name, stars, counts,
                 processed_repos, eNow, fetchCalls, eFetched>>
  /\ UNCHANGED exceptEnrich

\* _enrich_with_github_stars(posts) has been called
EnrichInit ==
  /\ IdleExcept("enrich")
  /\ posts \in PostLists
  /\ ei = 1
  /\ ePc = "start"
  /\ eStep = 1
  /\ repo_full_name = NoRepo
  /\ stars = <<>>
  /\ counts = NoCounts
  /\ processed_repos = <<>>
  /\ eNow = 0
  /\ fetchCalls = <<>>
  /\ eInterrupt = ""
  /\ eFetched = <<>>

EnrichNext ==
  \/ EnrichStart
  \/ EnrichDone
  \/ EnrichSkipUnresolved
  \/ EnrichMemoHit
  \/ EnrichFirstEncounter
  \/ EnrichCopy
  \/ EnrichFetch
  \/ EnrichFetchRaises
  \/ EnrichCount
  \/ EnrichCountRaises
  \/ EnrichSet
  \/ EnrichCache
  \/ EnrichInterruptInTry
  \/ EnrichInterruptOutsideTry

SpecEnrich == EnrichInit /\ [][EnrichNext]_vars

\* the posts of a shorter catalogue: two posts of one repository, a GitHub
\* URL that resolves to no repository, and a post without URL
FewPosts ==
  \A i \in 1..Len(posts) :
    \/ /\ posts[i].url # None
       /\ ExtractRepoInfo(posts[i].url) \in {None, Some([owner |-> <<"o">>, repo |-> <<"r1">>])}
       /\ posts[i].is_github_link
       /\ posts[i].posted_at # None
    \/ posts[i].url = None

EnrichFewInit == EnrichInit /\ FewPosts

SpecEnrichFew == EnrichFewInit /\ [][EnrichNext]_vars

(***************************************************************************)
(* Enrichment Pipeline: properties                                         *)
(***************************************************************************)
\* the five enrichment fields of a post, in order
FiveFields(post) == [k \in 1..5 |-> post[EnrichFields[k]]]

AllSet(post) == \A k \in 1..5 : post[EnrichFields[k]] # None

AllAbsent(post) == \A k \in 1..5 : post[EnrichFields[k]] = None

\* the positions in posts of the GitHub posts that resolve to the repository
PostsOf(name) ==
  { i \in 1..Len(posts) :
      /\ posts[i].is_github_link
      /\ posts[i].url # None
      /\ ExtractRepoInfo(posts[i].url) = Some(name) }

\* the repositories the GitHub posts resolve to
ResolvedRepos ==
  { Val(ExtractRepoInfo(posts[i].url)) :
      i \in { j \in 1..Len(posts) :
                /\ posts[j].is_github_link
                /\ posts[j].url # None
                /\ ExtractRepoInfo(posts[j].url) # None } }

\* the number of fetch_all_stars calls made for the repository
FetchCount(name) ==
  Cardinality({ i \in 1..Len(fetchCalls) : fetchCalls[i] = name })

\* the run has ended by the return of line 215 or of line 129
ReturnedNormally == ePc = "returned" /\ eInterrupt = ""

\* C3: when two or more posts resolve to the same repository full name,
\* fetch_all_stars is invoked exactly once for that repository during the
\* run, and all those posts end with identical values in the five
\* enrichment fields.
C3_OneFetchPerRepository ==
  ReturnedNormally =>
    \A name \in ResolvedRepos :
      Cardinality(PostsOf(name)) >= 2 =>
        /\ FetchCount(name) = 1
        /\ \A i, j \in PostsOf(name) : FiveFields(posts[i]) = FiveFields(posts[j])

\* the counts the claim C4 describes for the post and the fetched events
ExpectedCounts ==
  IF posts[Cur].posted_at = None
  THEN [total_stars |-> Len(stars), stars_before |-> 0, stars_after |-> 0]
  ELSE [total_stars |-> Len(stars),
        stars_before |-> StarsBefore(Val(posts[Cur].posted_at)),
        stars_after |-> StarsAfter(Val(posts[Cur].posted_at))]

\* C4: for a first-encountered repository with a non-empty fetched event
\* list, the counting step (not interrupted) yields total = number of
\* events, before = number of events strictly earlier than the post's
\* timestamp, after = number of events at or after it (0 and 0 without a
\* timestamp), and goes on to assign them to the post.
C4_CountsBeforeAfterTotal ==
  [][(ePc = "count" /\ eInterrupt' = eInterrupt) =>
       (ePc' = "set" /\ counts' = ExpectedCounts)]_vars

\* C6: wherever the Enrichment Pipeline returns, every post has all five
\* enrichment fields set or all five absent.
C6_FieldsAllOrNone ==
  ePc = "returned" => \A i \in 1..Len(posts) : AllSet(posts[i]) \/ AllAbsent(posts[i])

\* C7: a KeyboardInterrupt arriving at any point of the enrichment loop
\* makes _enrich_with_github_stars return the post list; it is never
\* propagated to the caller.
C7_InterruptNeverPropagates ==
  eInterrupt # "" => ePc = "returned"

\* the fields of a post that are not enrichment fields
BaseFields == {"post_id", "url", "is_github_link", "posted_at"}

\* the post is not GitHub-flagged, has no URL, or its URL resolves to no
\* repository
NotEnrichable(post) ==
  IF ~post.is_github_link \/ post.url = None THEN TRUE
  ELSE ExtractRepoInfo(post.url) = None

\* the current post is one whose URL resolves to no repository
AtUnresolved ==
  IF ePc = "loop" /\ ei <= Len(GithubPosts)
  THEN ExtractRepoInfo(posts[Cur].url) = None
  ELSE FALSE

\* the step is a return of fetch_all_stars with no events
FetchedNothing ==
  /\ ePc = "fetch"
  /\ Len(eFetched') = Len(eFetched) + 1
  /\ ~eFetched'[Len(eFetched')].raised
  /\ eFetched'[Len(eFetched')].stars = <<>>

\* the step is fetch_all_stars raising an exception
FetchRaised ==
  /\ ePc = "fetch"
  /\ Len(eFetched') = Len(eFetched) + 1
  /\ eFetched'[Len(eFetched')].raised

\* the loop goes on with the next post, the posts and the memo as they were
SkipsPost ==
  /\ posts' = posts
  /\ processed_repos' = processed_repos
  /\ ePc' = "loop"
  /\ ei' = ei + 1

\* C23: on the first encounter of a repository, a post whose URL does not
\* resolve to (owner, name) is skipped with no fetch and no field set and the
\* loop continues with the next post; a post whose fetch returns no events
\* gets none of the five enrichment fields and nothing is stored in the memo
\* for its repository.
C23_UnresolvedAndEmptySkipped ==
  [][eInterrupt' = eInterrupt =>
       /\ AtUnresolved =>
            /\ SkipsPost
            /\ fetchCalls' = fetchCalls
            /\ AllAbsent(posts'[Cur])
       /\ FetchedNothing =>
            /\ SkipsPost
            /\ AllAbsent(posts'[Cur])
            /\ repo_full_name \notin DOMAIN processed_repos']_vars

\* C23 witness: the first post's URL did not resolve, the fetch for the
\* second post returned no events; the run has returned with both posts
\* without enrichment fields, one fetch and an empty memo
C23_Witness ==
  /\ ReturnedNormally
  /\ Len(posts) = 2
  /\ posts[1].is_github_link /\ ExtractRepoInfo(posts[1].url) = None
  /\ Len(eFetched) = 1
  /\ eFetched[1].post = 2 /\ ~eFetched[1].raised /\ eFetched[1].stars = <<>>
  /\ AllAbsent(posts[1]) /\ AllAbsent(posts[2])
  /\ DOMAIN processed_repos = {}

\* C24: the pipeline returns the list it was given, same posts, length and
\* order; no step changes a field other than the five enrichment fields, and
\* no step changes anything on a post that is not GitHub-flagged, has no URL
\* or whose URL does not resolve to a repository.
C24_EnrichmentFrame ==
  [][/\ Len(posts') = Len(posts)
     /\ \A i \in 1..Len(posts) :
          /\ \A f \in BaseFields : posts'[i][f] = posts[i][f]
          /\ NotEnrichable(posts[i]) => posts'[i] = posts[i]]_vars

\* C24 witness: the run has returned a list of two posts, one with its five
\* enrichment fields set, the other without URL and untouched
C24_Witness ==
  /\ ReturnedNormally
  /\ Len(posts) = 2
  /\ \E i, j \in 1..2 :
       /\ AllSet(posts[i])
       /\ posts[j].url = None /\ AllAbsent(posts[j])
  /\ posts[1].post_id = 1 /\ posts[2].post_id = 2

\* the events of the last fetch of the repository that returned any
FetchedEvents(name) ==
  LET got == SelectSeq(eFetched, LAMBDA e : e.repo = name /\ e.stars # <<>>)
  IN  got[Len(got)].stars

\* C28: after the pipeline returns, every post with enrichment fields set and
\* a timestamp T has as before-count the number of fetched events of its
\* repository strictly earlier than its own T and as after-count the number
\* at or after T, also when its values came from the memo of an earlier post
\* with another timestamp; and before + after = total.
C28_CountsRelativeToOwnTimestamp ==
  ePc = "returned" =>
    \A i \in 1..Len(posts) :
      (AllSet(posts[i]) /\ posts[i].posted_at # None) =>
        LET ev == FetchedEvents(Val(ExtractRepoInfo(posts[i].url)))
            at == Val(posts[i].posted_at)
        IN  /\ Val(posts[i].github_stars_before_hn) =
                 Cardinality({ k \in 1..Len(ev) : ev[k].starred_at.t < at.t })
            /\ Val(posts[i].github_stars_after_hn) =
                 Cardinality({ k \in 1..Len(ev) : ev[k].starred_at.t >= at.t })
            /\ Val(posts[i].github_stars_before_hn)
                 + Val(posts[i].github_stars_after_hn)
                 = Val(posts[i].github_total_stars)

\* C30: when fetching or counting for a post raises an exception other than
\* an interrupt, the post keeps all five enrichment fields absent, nothing is
\* added to the memo for its repository, the exception is not propagated and
\* the later GitHub posts are still processed.
C30_ErrorIsolation ==
  /\ [][eInterrupt' = eInterrupt =>
          ((FetchRaised \/ (ePc = "count" /\ CountRaises)) =>
             /\ SkipsPost
             /\ AllAbsent(posts'[Cur])
             /\ repo_full_name \notin DOMAIN processed_repos')]_vars
  /\ [](ePc = "raised" => eInterrupt # "")
  /\ [](ReturnedNormally => ei >= Len(GithubPosts) + 1)

\* C30 witness: the fetch for the first post raised; the run has returned
\* with the first post without enrichment fields and the second post, of the
\* same repository, fetched and enriched
C30_Witness ==
  /\ ReturnedNormally
  /\ Len(posts) = 2
  /\ Len(eFetched) = 2
  /\ eFetched[1].raised /\ eFetched[1].post = 1
  /\ eFetched[2].post = 2 /\ eFetched[2].repo = eFetched[1].repo
  /\ AllAbsent(posts[1])
  /\ AllSet(posts[2])

(***************************************************************************)
(* Relative-Age Parser                                                     *)
(***************************************************************************)
\* An age text is a sequence of pieces: " " (white space), a digit, a sign,
\* or a chunk of letters.  A word is a sequence of pieces without " ".
DigitChars == <<"0", "1", "2", "3", "4", "5", "6", "7", "8", "9">>

Digits == { DigitChars[i] : i \in 1..10 }

DigitValue(c) == (CHOOSE i \in 1..10 : DigitChars[i] = c) - 1

\* str.lower() of a piece
Lower(c) ==
  CASE c = "Minute" -> "minute"
    [] c = "Day" -> "day"
    [] c = "True" -> "true"
    [] c = "False" -> "false"
    [] OTHER -> c

\* age_text.lower()
LowerText(text) == [i \in 1..Len(text) |-> Lower(text[i])]

RECURSIVE SplitWords(_)
\* str.split(): the words between runs of white space, no empty word
SplitWords(text) ==
  IF text = <<>> THEN <<>>
  ELSE IF Head(text) = " " THEN SplitWords(Tail(text))
  ELSE LET r == SplitWords(Tail(text))
       IN  IF Len(text) >= 2 /\ text[2] # " "
           THEN << <<Head(text)>> \o r[1] >> \o Tail(r)
           ELSE << <<Head(text)>> >> \o r

\* int(word) raises ValueError unless the word is an optional sign followed
\* by digits
IsIntWord(word) ==
  LET body == IF word # <<>> /\ word[1] \in {"-", "+"} THEN Tail(word) ELSE word
  IN  body # <<>> /\ \A i \in 1..Len(body) : body[i] \in Digits

RECURSIVE DigitsValue(_)
DigitsValue(ds) ==
  IF ds = <<>> THEN 0
  ELSE 10 * DigitsValue(SubSeq(ds, 1, Len(ds) - 1)) + DigitValue(ds[Len(ds)])

\* int(word) of a word that is an integer
IntOfWord(word) ==
  IF word[1] = "-" THEN 0 - DigitsValue(Tail(word))
  ELSE IF word[1] = "+" THEN DigitsValue(Tail(word))
  ELSE DigitsValue(word)

\* '"minute" in unit'
Contains(unit, name) == \E i \in 1..Len(unit) : unit[i] = name

\* the length in minutes of the unit the if/elif chain selects (0: no branch
\* is taken)
UnitMinutes(unit) ==
  IF Contains(unit, "minute") THEN 1
  ELSE IF Contains(unit, "hour") THEN 60
  ELSE IF Contains(unit, "day") THEN 24 * 60
  ELSE IF Contains(unit, "month") THEN 30 * 24 * 60
  ELSE IF Contains(unit, "year") THEN 365 * 24 * 60
  ELSE 0

\* parts = age_text.lower().split()
AgeParts == SplitWords(LowerText(age_text))

\* the call returns None: fewer than two words, a first word that is not an
\* integer (ValueError, caught), or no unit found
AgeIsNone ==
  IF Len(AgeParts) < 2 THEN TRUE
  ELSE IF ~IsIntWord(AgeParts[1]) THEN TRUE
  ELSE UnitMinutes(AgeParts[2]) = 0

\* now - timedelta(...), in minutes since datetime.min
AgeInstant == age_now - IntOfWord(AgeParts[1]) * UnitMinutes(AgeParts[2])

\* "now - timedelta(...)" lies before datetime.min: OverflowError (the values
\* tried stay below datetime.max and within timedelta's range)
AgeOverflows == AgeInstant < 0

\* lines 476-477, 479 with 494-495, 493: the call returns None
AgeReturnsNone ==
  /\ agePc = "call"
  /\ AgeIsNone
  /\ age_result' = None
  /\ agePc' = "returned"
  /\ UNCHANGED <<age_text, age_now>>
  /\ UNCHANGED exceptAge

\* lines 482-491: the call returns now minus the duration
AgeReturnsTime ==
  /\ agePc = "call"
  /\ ~AgeIsNone
  /\ ~AgeOverflows
  /\ age_result' = Some(Naive(AgeInstant))
  /\ agePc' = "returned"
  /\ UNCHANGED <<age_text, age_now>>
  /\ UNCHANGED exceptAge

\* lines 482-491: the subtraction raises OverflowError, which
\* "except (ValueError, IndexError)" does not catch
AgeRaises ==
  /\ agePc = "call"
  /\ ~AgeIsNone
  /\ AgeOverflows
  /\ agePc' = "raised"
  /\ UNCHANGED <<age_text, age_now, age_result>>
  /\ UNCHANGED exceptAge

\* the first words tried
AgeNumberWords ==
  { <<"5">>, <<"0">>, <<"1", "2">>, <<"-", "5">>, <<"+", "2">>,
    <<"3", "0", "0", "0">>, <<"a">>, <<"5", ".", "5">>, <<"5", "x">>, <<"-">> }

\* the second words tried
AgeUnitWords ==
  { <<"minute">>, <<"minute", "s">>, <<"Minute", "s">>, <<"hour">>,
    <<"hour", "s">>, <<"day">>, <<"Day", "s">>, <<"month">>, <<"month", "s">>,
    <<"year">>, <<"year", "s">>, <<"second", "s">>, <<"week", "s">>, <<"5">> }

RECURSIVE JoinWords(_)
\* the words with one " " between them
JoinWords(ws) ==
  IF ws = <<>> THEN <<>>
  ELSE IF Len(ws) = 1 THEN ws[1]
  ELSE ws[1] \o <<" ">> \o JoinWords(Tail(ws))

\* the word lists tried: a number word, a unit word, then "ago" words
AgeWordLists ==
  { ws \in UNION { [1..k -> AgeNumberWords \cup AgeUnitWords \cup {<<"ago">>}] :
                     k \in 0..MaxAgeWords } :
      /\ Len(ws) >= 1 => ws[1] \in AgeNumberWords \cup {<<"ago">>}
      /\ Len(ws) >= 2 => ws[2] \in AgeUnitWords
      /\ \A i \in 3..Len(ws) : ws[i] = <<"ago">> }

\* the texts tried: the words joined, with or without white space around
AgeTexts ==
  { pre \o JoinWords(ws) \o post :
      ws \in AgeWordLists, pre \in {<<>>, <<" ">>}, post \in {<<>>, <<" ", " ">>} }

\* 2026-11-03 12:00, in minutes since 0001-01-01 00:00
NOW_MINUTES == 1065488400

\* parse_age_to_datetime(age_text) has been called
AgeInit ==
  /\ IdleExcept("age")
  /\ age_text \in AgeTexts
  /\ age_now = NOW_MINUTES
  /\ age_result = None
  /\ agePc = "call"

AgeNext ==
  \/ AgeReturnsNone
  \/ AgeReturnsTime
  \/ AgeRaises

SpecAge == AgeInit /\ [][AgeNext]_vars

(***************************************************************************)
(* Claims about the Relative-Age Parser                                    *)
(***************************************************************************)
\* the text is "<integer> <unit> ..." with a unit word that names the unit
AgeTextIs(value, unit) ==
  /\ Len(AgeParts) >= 2
  /\ IsIntWord(AgeParts[1])
  /\ IntOfWord(AgeParts[1]) = value
  /\ Contains(AgeParts[2], unit)

\* the integers the number words stand for
AgeValues == {5, 0, 12, 0 - 5, 2, 3000}

\* the text is malformed: fewer than two words, a first word that is not an
\* integer, or a unit word that names no unit
AgeMalformed ==
  IF Len(AgeParts) < 2 THEN TRUE
  ELSE IF ~IsIntWord(AgeParts[1]) THEN TRUE
  ELSE \A u \in {"minute", "hour", "day", "month", "year"} :
         ~Contains(AgeParts[2], u)

\* C13: for every text "<integer> <unit> ..." the result is now minus that
\* many minutes, hours, days, 30-day months or 365-day years; for every
\* malformed text the result is None; no exception is raised, whatever the
\* magnitude of the integer.
C13_AgeIsNowMinusDuration ==
  /\ agePc # "raised"
  /\ agePc = "returned" =>
       /\ \A v \in AgeValues :
            /\ AgeTextIs(v, "minute") => age_result = Some(Naive(age_now - v))
            /\ AgeTextIs(v, "hour") => age_result = Some(Naive(age_now - v * 60))
            /\ AgeTextIs(v, "day") => age_result = Some(Naive(age_now - v * 1440))
            /\ AgeTextIs(v, "month") =>
                 age_result = Some(Naive(age_now - v * 30 * 1440))
            /\ AgeTextIs(v, "year") =>
                 age_result = Some(Naive(age_now - v * 365 * 1440))
       /\ AgeMalformed => age_result = None

(***************************************************************************)
(* Tabular Exporter and its reader                                         *)
(***************************************************************************)
\* the fields of HNPost in declared order: the keys of model_dump()
PostFields ==
  <<"rank", "post_id", "title", "url", "domain", "points", "author",
    "comments_count", "age_text", "posted_at", "page_number", "scraped_at",
    "is_show_hn", "is_ask_hn", "is_job", "is_github_link", "is_twitter_link",
    "is_yc_company", "github_repo_full_name", "github_total_stars",
    "github_stars_before_hn", "github_stars_after_hn",
    "github_stars_fetched_at">>

\* the declared type of a field
FieldKind(f) ==
  CASE f \in {"rank", "points", "comments_count", "page_number"} -> "int"
    [] f \in {"post_id", "title", "author", "age_text"} -> "str"
    [] f \in {"url", "domain", "github_repo_full_name"} -> "optstr"
    [] f \in {"posted_at", "github_stars_fetched_at"} -> "optdatetime"
    [] f = "scraped_at" -> "datetime"
    [] f \in {"github_total_stars", "github_stars_before_hn",
              "github_stars_after_hn"} -> "optint"
    [] OTHER -> "bool"

RECURSIVE IntToText(_)
\* str(n) of an integer n >= 0: its decimal digits
IntToText(n) ==
  IF n < 10 THEN <<DigitChars[n + 1]>>
  ELSE IntToText(n \div 10) \o <<DigitChars[(n % 10) + 1]>>

\* str(b) of a bool
BoolToText(b) == IF b THEN <<"True">> ELSE <<"False">>

\* datetime.isoformat(): the instant, and the offset of an aware datetime
IsoFormat(dt) ==
  IntToText(dt.t) \o (IF dt.aware THEN <<"+00:00">> ELSE <<>>)

\* datetime.fromisoformat(text)
FromIsoFormat(text) ==
  IF text[Len(text)] = "+00:00"
  THEN [t |-> IntOfWord(SubSeq(text, 1, Len(text) - 1)), aware |-> TRUE]
  ELSE [t |-> IntOfWord(text), aware |-> FALSE]

\* a writer that spells None out
NoneTextLiteral == <<"None">>

\* the csv writer writes None as the empty text
NoneText == <<>>

\* the text written for the value of a field of a post: isoformat for a
\* datetime (lines 98-100), else what csv.DictWriter writes (str(value), and
\* the empty text for None)
CellOf(post, f) ==
  LET v == post[f]
      kind == FieldKind(f)
  IN  CASE kind = "int" -> IntToText(v)
        [] kind = "str" -> v
        [] kind = "bool" -> BoolToText(v)
        [] kind = "datetime" -> IsoFormat(v)
        [] kind = "optstr" -> IF v = None THEN NoneText ELSE Val(v)
        [] kind = "optint" -> IF v = None THEN NoneText ELSE IntToText(Val(v))
        [] OTHER -> IF v = None THEN NoneText ELSE IsoFormat(Val(v))

\* writer.writerow(post_dict): the cells in the order of fieldnames
RowOf(post) == [k \in 1..Len(PostFields) |-> CellOf(post, PostFields[k])]

\* the rows written for a non-empty list: writeheader(), then one row a post
FileOf(plist) ==
  <<PostFields>> \o [i \in 1..Len(plist) |-> RowOf(plist[i])]

\* row[name] of csv.DictReader: the cell under the header's column name
Cell(file, i, name) ==
  file[i + 1][CHOOSE k \in 1..Len(file[1]) : file[1][k] = name]

\* 'row[name].lower() == "true"'
IsTrueText(text) == LowerText(text) = <<"true">>

\* the HNPost that load_posts_from_csv builds from data row i (lines 50-76):
\* the columns it reads, the enrichment fields at their default None
LoadRow(file, i) ==
  [rank |-> IntOfWord(Cell(file, i, "rank")),
   post_id |-> Cell(file, i, "post_id"),
   title |-> Cell(file, i, "title"),
   url |-> IF Cell(file, i, "url") # <<>> THEN Some(Cell(file, i, "url"))
           ELSE None,
   domain |-> IF Cell(file, i, "domain") # <<>>
              THEN Some(Cell(file, i, "domain")) ELSE None,
   points |-> IntOfWord(Cell(file, i, "points")),
   author |-> Cell(file, i, "author"),
   comments_count |-> IntOfWord(Cell(file, i, "comments_count")),
   age_text |-> Cell(file, i, "age_text"),
   posted_at |-> IF Cell(file, i, "posted_at") # <<>>
                 THEN Some(FromIsoFormat(Cell(file, i, "posted_at"))) ELSE None,
   page_number |-> IntOfWord(Cell(file, i, "page_number")),
   scraped_at |-> FromIsoFormat(Cell(file, i, "scraped_at")),
   is_show_hn |-> IsTrueText(Cell(file, i, "is_show_hn")),
   is_ask_hn |-> IsTrueText(Cell(file, i, "is_ask_hn")),
   is_job |-> IsTrueText(Cell(file, i, "is_job")),
   is_github_link |-> IsTrueText(Cell(file, i, "is_github_link")),
   is_twitter_link |-> IsTrueText(Cell(file, i, "is_twitter_link")),
   is_yc_company |-> IsTrueText(Cell(file, i, "is_yc_company")),
   github_repo_full_name |-> None,
   github_total_stars |-> None,
   github_stars_before_hn |-> None,
   github_stars_after_hn |-> None,
   github_stars_fetched_at |-> None]

\* the list load_posts_from_csv returns for a file
LoadFile(file) == [i \in 1..(Len(file) - 1) |-> LoadRow(file, i)]

\* An HNPost with every field: number i of a list, with or without a URL,
\* with a posting time or None, enriched or not.
FullPost(i, url, posted_at, enriched) ==
  [rank |-> i, post_id |-> <<"id">> \o IntToText(i),
   title |-> <<"Show HN", ",", " x">>,
   url |-> url, domain |-> IF url = None THEN None ELSE Some(<<"github.com">>),
   points |-> 10 * i + 2, author |-> <<"u">>, comments_count |-> 0,
   age_text |-> <<>>, posted_at |-> posted_at, page_number |-> 1,
   scraped_at |-> Naive(40),
   is_show_hn |-> TRUE, is_ask_hn |-> FALSE, is_job |-> FALSE,
   is_github_link |-> url # None, is_twitter_link |-> FALSE,
   is_yc_company |-> FALSE,
   github_repo_full_name |-> IF enriched THEN Some(<<"o", "/", "r">>) ELSE None,
   github_total_stars |-> IF enriched THEN Some(3) ELSE None,
   github_stars_before_hn |-> IF enriched THEN Some(2) ELSE None,
   github_stars_after_hn |-> IF enriched THEN Some(1) ELSE None,
   github_stars_fetched_at |-> IF enriched THEN Some(Naive(41)) ELSE None]

\* the (url, posted_at, enriched) of the posts tried
CsvPostChoices ==
  { <<u, p, e>> :
      u \in {None, Some(<<"https://", "github.com", "/", "o", "/", "r">>)},
      p \in {None, Some(Naive(7)), Some([t |-> 12, aware |-> TRUE])},
      e \in BOOLEAN }

\* the post lists tried
CsvPostLists ==
  UNION { { [i \in 1..n |-> FullPost(i, c[i][1], c[i][2], c[i][3])] :
              c \in [1..n -> CsvPostChoices] } : n \in 0..MaxCsvPosts }

\* a file left by an earlier run
OldFile == FileOf(<<FullPost(9, None, None, FALSE)>>)

\* lines 86-88: an empty list; nothing is opened
CsvSaveNothing ==
  /\ csvPc = "start"
  /\ csvPosts = <<>>
  /\ csvPc' = "saved"
  /\ UNCHANGED <<csvPosts, csvFile, csvLoaded>>
  /\ UNCHANGED exceptCsv

\* lines 90-104: the file is created or truncated and written
CsvSave ==
  /\ csvPc = "start"
  /\ csvPosts # <<>>
  /\ csvFile' = Some(FileOf(csvPosts))
  /\ csvPc' = "saved"
  /\ UNCHANGED <<csvPosts, csvLoaded>>
  /\ UNCHANGED exceptCsv

\* line 92: open() raises OSError (the directory does not exist)
CsvSaveOpenFails ==
  /\ csvPc = "start"
  /\ csvPosts # <<>>
  /\ csvFile = None
  /\ csvPc' = "raised"
  /\ UNCHANGED <<csvPosts, csvFile, csvLoaded>>
  /\ UNCHANGED exceptCsv

\* load_posts_from_csv reads the file back
CsvLoad ==
  /\ csvPc = "saved"
  /\ csvFile # None
  /\ csvLoaded' = LoadFile(Val(csvFile))
  /\ csvPc' = "loaded"
  /\ UNCHANGED <<csvPosts, csvFile>>
  /\ UNCHANGED exceptCsv

\* load_posts_from_csv finds no file: open() raises FileNotFoundError
CsvLoadNoFile ==
  /\ csvPc = "saved"
  /\ csvFile = None
  /\ csvPc' = "raised"
  /\ UNCHANGED <<csvPosts, csvFile, csvLoaded>>
  /\ UNCHANGED exceptCsv

\* save_to_csv(posts, filename) has been called
CsvInit ==
  /\ IdleExcept("csv")
  /\ csvPosts \in CsvPostLists
  /\ csvFile \in {None, Some(OldFile)}
  /\ csvLoaded = <<>>
  /\ csvPc = "start"

CsvNext ==
  \/ CsvSaveNothing
  \/ CsvSave
  \/ CsvSaveOpenFails
  \/ CsvLoad
  \/ CsvLoadNoFile

SpecCsv == CsvInit /\ [][CsvNext]_vars

(***************************************************************************)
(* Claims about the Tabular Exporter                                       *)
(***************************************************************************)
\* C14: writing a list of N posts with save_to_csv and reading the file back
\* with load_posts_from_csv yields N posts in the same order, every field
\* equal to the original's, the timestamps and the five enrichment fields
\* included.
C14_RoundTrip ==
  csvPc = "loaded" =>
    /\ Len(csvLoaded) = Len(csvPosts)
    /\ \A i \in 1..Len(csvPosts) : csvLoaded[i] = csvPosts[i]

\* the column of a field in the header
ColumnOf(f) == CHOOSE k \in 1..Len(PostFields) : PostFields[k] = f

\* C15: for a non-empty list of N posts save_to_csv writes exactly one header
\* row, the field names in declared order, then exactly N data rows in list
\* order, a None timestamp as an empty field; for an empty list it writes
\* nothing (the file is neither created nor truncated) and does not raise.
C15_HeaderAndRows ==
  [][(csvPc = "start" /\ csvPc' # csvPc) =>
       IF csvPosts = <<>>
       THEN csvPc' = "saved" /\ csvFile' = csvFile
       ELSE csvPc' = "saved" =>
              /\ csvFile' # None
              /\ Len(Val(csvFile')) = Len(csvPosts) + 1
              /\ Val(csvFile')[1] = PostFields
              /\ \A i \in 1..Len(csvPosts) :
                   LET row == Val(csvFile')[i + 1]
                   IN  /\ Len(row) = Len(PostFields)
                       /\ row[ColumnOf("rank")] = IntToText(csvPosts[i].rank)
                       /\ row[ColumnOf("post_id")] = csvPosts[i].post_id
                       /\ \A f \in {"posted_at", "github_stars_fetched_at"} :
                            row[ColumnOf(f)] =
                              IF csvPosts[i][f] = None THEN <<>>
                              ELSE IsoFormat(Val(csvPosts[i][f]))]_vars

\* C15 witness: two posts, the first without posting time, the second with
\* one, have been written: the file holds a header and two rows
C15_Witness ==
  /\ csvPc = "saved"
  /\ Len(csvPosts) = 2
  /\ csvPosts[1].posted_at = None
  /\ csvPosts[2].posted_at # None
  /\ csvFile # None
  /\ Len(Val(csvFile)) = 3
  /\ Val(csvFile)[2][ColumnOf("posted_at")] = <<>>
  /\ Val(csvFile)[3][ColumnOf("posted_at")] # <<>>

(***************************************************************************)
(* Front-page parsers                                                      *)
(***************************************************************************)
\* A row (tr element) of the page.  A post row has class "athing": its id,
\* the text of its rank span (None: no span), its title line ("none": no
\* span.titleline, "nolink": no a element in it, "link"), title and href of
\* the link, and where span.sitestr is ("sitebit": inside span.sitebit,
\* "bare": directly in the title line, "none").  Any other row has cls "":
\* whether it holds td.subtext, the text of span.score (None: no span), of
\* a.hnuser, of the age link and of the comments link.
Row(cls, id, rank, titleline, href, site, subtext, score, user, age, comments) ==
  [cls |-> cls, id |-> id, rank |-> rank, titleline |-> titleline,
   title |-> <<"t">>, href |-> href, site |-> site, subtext |-> subtext,
   score |-> score, user |-> user, age |-> age, comments |-> comments]

RECURSIVE LStrip(_, _)
\* the text without the leading pieces that are in the set
LStrip(text, cs) ==
  IF text # <<>> /\ Head(text) \in cs THEN LStrip(Tail(text), cs) ELSE text

RECURSIVE RStrip(_, _)
\* str.rstrip(chars)
RStrip(text, cs) ==
  IF text # <<>> /\ text[Len(text)] \in cs
  THEN RStrip(SubSeq(text, 1, Len(text) - 1), cs)
  ELSE text

\* str.strip(chars); str.strip() strips white space
Strip(text, cs) == RStrip(LStrip(text, cs), cs)

\* int(text) raises ValueError: int() ignores white space around the digits
IntRaises(text) == ~IsIntWord(Strip(text, {" "}))

\* int(text)
IntOf(text) == IntOfWord(Strip(text, {" "}))

\* "int(text.split()[0])" raises ValueError or IndexError
FirstWordIntRaises(text) ==
  IF SplitWords(text) = <<>> THEN TRUE ELSE ~IsIntWord(SplitWords(text)[1])

\* "int(text.split()[0])"
FirstWordInt(text) == IntOfWord(SplitWords(text)[1])

\* site root of the front page
BASE_URL == <<"https://", "news.ycombinator.com">>

\* find_next_sibling("tr"): None after the last row
NextSibling(rows, i) == IF i < Len(rows) THEN Some(rows[i + 1]) ELSE None

\* the age link's text and what parse_age_to_datetime makes of it: "ok" is
\* "2 hours ago" (now minus 120 minutes); "overflow" is "3000 years ago",
\* for which parse_age_to_datetime raises OverflowError
AgeText(age) ==
  CASE age = "ok" -> <<"2", " ", "hours", " ", "ago">>
    [] age = "overflow" -> <<"3", "0", "0", "0", " ", "years", " ", "ago">>
    [] OTHER -> <<>>

PostedAt(age) == IF age = "ok" THEN Some([ago |-> 120]) ELSE None

\* the comment count both parsers compute from the links of the metadata row
CommentsCount(row) ==
  IF row.comments = None THEN 0
  ELSE IF ~Contains(LowerText(Val(row.comments)), "comment") THEN 0
  ELSE IF FirstWordIntRaises(Val(row.comments)) THEN 0
  ELSE FirstWordInt(Val(row.comments))

\* the HNPost of the parsers (scraped_at, the title flags and
\* is_twitter_link are left out: both parsers compute them alike)
ParsedPost(row, rank, url, domain, points, author, cc, age, page_number, is_job, gh) ==
  [rank |-> rank, post_id |-> row.id, title |-> row.title,
   url |-> IF url # <<>> THEN Some(url) ELSE None, domain |-> domain,
   points |-> points, author |-> author, comments_count |-> cc,
   age_text |-> AgeText(age), posted_at |-> PostedAt(age),
   page_number |-> page_number, is_job |-> is_job,
   is_github_link |-> gh]

\* HNWebScraper.parse_page, one post row (hackernews.py lines 515-626): the
\* posts it appends, <<>> or one post
WebRow(rows, i, page_number) ==
  LET row == rows[i]
      subtext == NextSibling(rows, i)
  IN  IF row.rank # None /\ IntRaises(RStrip(Strip(Val(row.rank), {" "}), {"."}))
      THEN <<>>                                  \* ValueError, line 624
      ELSE IF row.titleline # "link" THEN <<>>   \* lines 523-528
      ELSE IF subtext = None THEN <<>>           \* lines 541-542
      ELSE IF ~Val(subtext).subtext THEN <<>>    \* lines 545-546
      ELSE IF Val(subtext).age = "overflow" THEN <<>>   \* line 571, 624
      ELSE LET meta == Val(subtext) IN
       << ParsedPost(
            row,
            IF row.rank = None THEN 0
            ELSE IntOf(RStrip(Strip(Val(row.rank), {" "}), {"."})),
            row.href,
            IF row.site = "none" THEN None ELSE Some(<<"github.com">>),
            IF meta.score = None THEN 0
            ELSE IF FirstWordIntRaises(Strip(Val(meta.score), {" "})) THEN 0
            ELSE FirstWordInt(Strip(Val(meta.score), {" "})),
            IF meta.user = None THEN <<>> ELSE Val(meta.user),
            CommentsCount(meta),
            meta.age,
            page_number,
            FALSE,
            Contains(row.href, "github.com")) >>

\* "if url and not url.startswith('http'): url = BASE_URL/url"
Qualify(url) ==
  IF url # <<>> /\ url[1] \notin {"https://", "http://"}
  THEN BASE_URL \o <<"/">> \o url
  ELSE url

\* HackerNewsScraper.parse_page, one post row (scraper.py lines 122-257)
ScraperRow(rows, i, page_number) ==
  LET row == rows[i]
      meta_row == NextSibling(rows, i)
      url == Qualify(row.href)
      domain == IF row.site = "sitebit" THEN Some(<<"github.com">>) ELSE None
  IN  IF row.rank # None /\ IntRaises(Strip(Val(row.rank), {"."}))
      THEN <<>>                                  \* ValueError, line 255
      ELSE IF row.titleline # "link" THEN <<>>   \* lines 133-138
      ELSE IF meta_row = None THEN <<>>          \* lines 158-159
      ELSE LET rank == IF row.rank = None THEN 0
                       ELSE IntOf(Strip(Val(row.rank), {"."}))
               meta == Val(meta_row)
           IN
       IF ~meta.subtext                          \* lines 162-180
       THEN << ParsedPost(row, rank, url, domain, 0, <<>>, 0, "none",
                          page_number, TRUE, FALSE) >>
       ELSE IF /\ meta.score # None
               /\ Strip(Val(meta.score), {" "}) # <<>>
               /\ FirstWordIntRaises(Strip(Val(meta.score), {" "}))
       THEN <<>>                                 \* ValueError, lines 187, 255
       ELSE IF meta.age = "overflow" THEN <<>>   \* lines 201, 255
       ELSE
       << ParsedPost(
            row, rank, url, domain,
            IF meta.score = None \/ Strip(Val(meta.score), {" "}) = <<>> THEN 0
            ELSE FirstWordInt(Strip(Val(meta.score), {" "})),
            IF meta.user = None THEN <<>> ELSE Val(meta.user),
            CommentsCount(meta),
            meta.age,
            page_number,
            FALSE,
            Contains(url, "github.com")) >>

\* the positions of the post rows: soup.find_all("tr", class_="athing")
PostRows(rows) == SelectSeq([i \in 1..Len(rows) |-> i],
                            LAMBDA i : rows[i].cls = "athing")

RECURSIVE ParseRows(_, _, _, _)
\* the loop over the post rows, for the parser of the named class
ParseRows(class, rows, todo, page_number) ==
  IF todo = <<>> THEN <<>>
  ELSE (IF class = "HNWebScraper" THEN WebRow(rows, Head(todo), page_number)
        ELSE ScraperRow(rows, Head(todo), page_number))
       \o ParseRows(class, rows, Tail(todo), page_number)

\* parse_page(html, page_number) of the named class
ParsePage(class, rows, page_number) ==
  ParseRows(class, rows, PostRows(rows), page_number)

\* a post row as the site serves it, and the ways a row may differ from it
GoodRank == Some(<<"1", ".">>)

AbsoluteHref == <<"https://", "github.com", "/o/r">>

PostRowShapes ==
  { Row("athing", 0, rank, "link", AbsoluteHref, "sitebit",
        FALSE, None, None, "none", None) :
      rank \in {GoodRank, None, Some(<<"1", ".", " ">>), Some(<<"x">>)} }
  \cup
  { Row("athing", 0, GoodRank, titleline, AbsoluteHref, "sitebit",
        FALSE, None, None, "none", None) :
      titleline \in {"none", "nolink"} }
  \cup
  { Row("athing", 0, GoodRank, "link", href, "sitebit",
        FALSE, None, None, "none", None) :
      href \in {<<>>, <<"item?id=", "1">>} }
  \cup
  { Row("athing", 0, GoodRank, "link", AbsoluteHref, site,
        FALSE, None, None, "none", None) :
      site \in {"bare", "none"} }

GoodScore == Some(<<"1", "2", " ", "points">>)

GoodComments == Some(<<"4", "9", " ", "comment", "s">>)

OtherRowShapes ==
  { Row("", 0, None, "none", <<>>, "none",
        subtext, GoodScore, Some(<<"u">>), "ok", GoodComments) :
      subtext \in BOOLEAN }
  \cup
  { Row("", 0, None, "none", <<>>, "none",
        TRUE, score, Some(<<"u">>), "ok", GoodComments) :
      score \in {None, Some(<<>>), Some(<<"many", " ", "points">>)} }
  \cup
  { Row("", 0, None, "none", <<>>, "none",
        TRUE, GoodScore, None, age, GoodComments) :
      age \in {"none", "overflow"} }
  \cup
  { Row("", 0, None, "none", <<>>, "none",
        TRUE, GoodScore, Some(<<"u">>), "ok", comments) :
      comments \in {None, Some(<<"discuss">>),
                    Some(<<"many", " ", "comment", "s">>)} }

RowShapes == PostRowShapes \cup OtherRowShapes

\* the pages of at most n rows; the id of a post row is its position
PagesOf(n) ==
  UNION { { [i \in 1..k |-> [shapes[i] EXCEPT !.id = i]] :
            shapes \in [1..k -> RowShapes] } : k \in 0..n }

\* HNWebScraper(...).parse_page(html, pn)
WebParsePage ==
  /\ webResult = None
  /\ webResult' = Some(ParsePage("HNWebScraper", html, pn))
  /\ UNCHANGED <<html, pn, scrResult>>
  /\ UNCHANGED exceptParse

\* HackerNewsScraper(...).parse_page(html, pn)
ScraperParsePage ==
  /\ scrResult = None
  /\ scrResult' = Some(ParsePage("HackerNewsScraper", html, pn))
  /\ UNCHANGED <<html, pn, webResult>>
  /\ UNCHANGED exceptParse

ParseInit ==
  /\ html \in PagesOf(MaxRows)
  /\ pn \in 1..2
  /\ webResult = None
  /\ scrResult = None
  /\ IdleExcept("parse")

ParseNext == WebParsePage \/ ScraperParsePage

SpecParse == ParseInit /\ [][ParseNext]_vars

\* row i is a post row with a title link and no metadata row
NoMetadataRow(rows, i) ==
  /\ rows[i].cls = "athing"
  /\ rows[i].titleline = "link"
  /\ IF i = Len(rows) THEN TRUE ELSE ~rows[i + 1].subtext

\* the result holds the row's post as a job post
EmittedAsJob(result, id) ==
  \E k \in 1..Len(result) :
    /\ result[k].post_id = id
    /\ result[k].points = 0
    /\ result[k].author = <<>>
    /\ result[k].comments_count = 0
    /\ result[k].is_job

\* C18: a post row that has a title link but no metadata row (no following
\* row, or a following row without the subtext cell) is still emitted by
\* both parsers, with points 0, empty author, comment count 0 and the job
\* flag true.
C18_RowsWithoutMetadataAreJobs ==
  (webResult # None /\ scrResult # None) =>
    \A i \in 1..Len(html) :
      NoMetadataRow(html, i) =>
        /\ EmittedAsJob(Val(webResult), html[i].id)
        /\ EmittedAsJob(Val(scrResult), html[i].id)

\* C19: the two parse_page implementations return the same list of posts
\* for the same page and page number (capture time aside).
C19_ParsersAgree ==
  (webResult # None /\ scrResult # None) => Val(webResult) = Val(scrResult)

(***************************************************************************)
(* Front-Page Fetcher                                                      *)
(***************************************************************************)
\* the address fetch_page requests for a page
PageUrl(page_number) ==
  IF page_number = 1 THEN BASE_URL
  ELSE BASE_URL \o <<"/?p=", page_number>>

\* the front page the site serves at an address: the first one when the
\* address has no "p" parameter
PageOfUrl(url) == IF url = BASE_URL THEN 1 ELSE url[Len(url)]

\* the rows numbered by position
Numbered(shapes) == [i \in 1..Len(shapes) |-> [shapes[i] EXCEPT !.id = i]]

PostRowShape(href) ==
  Row("athing", 0, GoodRank, "link", href, "sitebit",
      FALSE, None, None, "none", None)

MetaRowShape(subtext) ==
  Row("", 0, None, "none", <<>>, "none",
      subtext, GoodScore, Some(<<"u">>), "ok", GoodComments)

\* the bodies of the 2xx responses: the empty text, a page of one post, a page
\* of two posts, and a page whose post row is followed by a row without the
\* subtext cell
ServedPages ==
  { <<>>,
    Numbered(<<PostRowShape(AbsoluteHref), MetaRowShape(TRUE)>>),
    Numbered(<<PostRowShape(AbsoluteHref), MetaRowShape(TRUE),
               PostRowShape(<<"item?id=", "1">>), MetaRowShape(TRUE)>>),
    Numbered(<<PostRowShape(AbsoluteHref), MetaRowShape(FALSE)>>) }

\* the requests that raise requests.RequestException in fetch_page
FetchErrors == {"http_error", "transport_error"}

\* fetch_page on requests.RequestException, were it to let the error through
OnPageErrorRaise == "raise"

\* fetch_page on requests.RequestException: the error is printed and None
\* is returned
OnPageError == "return_none"

\* scrape_pages(num_pages) is called: all_posts = []
ScrapeStart ==
  /\ scPc = "idle"
  /\ scPc' = "loop"
  /\ page_num' = 1
  /\ scAllPosts' = <<>>
  /\ UNCHANGED <<scClass, num_pages, scRequests, scSleeps>>
  /\ UNCHANGED exceptScrape

\* one turn of the loop whose request gets a 2xx response: fetch_page sleeps
\* and returns the text; a non-empty text is parsed and its posts are added
ScrapePage ==
  /\ scPc = "loop"
  /\ page_num <= num_pages
  /\ \E body \in ServedPages :
       /\ scRequests' = Append(scRequests, [url |-> PageUrl(page_num),
                                            outcome |-> "ok",
                                            text |-> body])
       /\ scAllPosts' = IF body # <<>>
                        THEN scAllPosts \o ParsePage(scClass, body, page_num)
                        ELSE scAllPosts
  /\ scSleeps' = scSleeps + 1
  /\ page_num' = page_num + 1
  /\ UNCHANGED <<scClass, num_pages, scPc>>
  /\ UNCHANGED exceptScrape

\* one turn of the loop whose request fails (non-2xx status or transport
\* error): fetch_page returns None and the loop goes on
ScrapePageFails ==
  /\ scPc = "loop"
  /\ page_num <= num_pages
  /\ \E e \in FetchErrors :
       scRequests' = Append(scRequests, [url |-> PageUrl(page_num),
                                         outcome |-> e,
                                         text |-> <<>>])
  /\ IF OnPageError = "raise"
     THEN scPc' = "raised" /\ page_num' = page_num
     ELSE scPc' = scPc /\ page_num' = page_num + 1
  /\ UNCHANGED <<scClass, num_pages, scAllPosts, scSleeps>>
  /\ UNCHANGED exceptScrape

\* the loop is over: return all_posts
ScrapeReturn ==
  /\ scPc = "loop"
  /\ page_num > num_pages
  /\ scPc' = "done"
  /\ UNCHANGED <<scClass, num_pages, page_num, scAllPosts, scRequests, scSleeps>>
  /\ UNCHANGED exceptScrape

ScrapeInit ==
  /\ scClass \in {"HNWebScraper", "HackerNewsScraper"}
  /\ num_pages \in 0..MaxNumPages
  /\ page_num = 0
  /\ scAllPosts = <<>>
  /\ scRequests = <<>>
  /\ scSleeps = 0
  /\ scPc = "idle"
  /\ IdleExcept("scrape")

ScrapeNext == ScrapeStart \/ ScrapePage \/ ScrapePageFails \/ ScrapeReturn

SpecScrape == ScrapeInit /\ [][ScrapeNext]_vars

RECURSIVE PostsOfRequests(_, _)
\* the parsed posts of the first k requests, in order: nothing for a request
\* that failed
PostsOfRequests(reqs, k) ==
  IF k = 0 THEN <<>>
  ELSE PostsOfRequests(reqs, k - 1)
       \o (IF reqs[k].outcome = "ok"
           THEN ParsePage(scClass, reqs[k].text, PageOfUrl(reqs[k].url))
           ELSE <<>>)

\* C11: for page count N the pages 1..N are requested once each in increasing
\* order, and the result is the concatenation in page order of the parsed
\* posts of the fetched pages; a page whose fetch fails contributes nothing,
\* raises nothing and does not stop the later pages from being fetched.
C11_PagesInOrderConcatenated ==
  /\ scPc # "raised"
  /\ Len(scRequests) <= num_pages
  /\ \A i \in 1..Len(scRequests) : PageOfUrl(scRequests[i].url) = i
  /\ scPc \in {"loop", "done"} =>
       scAllPosts = PostsOfRequests(scRequests, Len(scRequests))
  /\ scPc = "done" => Len(scRequests) = num_pages

\* three pages were asked for, the second fetch failed, and the result holds
\* the posts of the first and the third page
C11_Witness ==
  /\ scPc = "done"
  /\ num_pages = 3
  /\ scRequests[1].outcome = "ok"
  /\ scRequests[2].outcome \in FetchErrors
  /\ scRequests[3].outcome = "ok"
  /\ \E k \in 1..Len(scAllPosts) : scAllPosts[k].page_number = 1
  /\ \E k \in 1..Len(scAllPosts) : scAllPosts[k].page_number = 3

====
